---------------------------- MODULE Spec2Model ----------------------------
(***************************************************************************)
(* Form 40-F document facade of edgartools: the attachment classifiers     *)
(* (_find_aif_attachment, _find_mda_attachment), the section boundary      *)
(* detector (_find_section_positions, _extract_section_text) and the lazy  *)
(* FortyF accessors, modelled from src/edgar/company_reports/forty_f.py.   *)
(*                                                                         *)
(* Python strings are sequences of one-character strings, so that `in`,    *)
(* startswith, endswith, upper, lower, strip and title are computed.       *)
(* None is the empty sequence <<>> and a present value v is <<v>>.         *)
(***************************************************************************)
EXTENDS Integers, Sequences, FiniteSets, TLC

VARIABLES
    filing,   \* the Filing handed to the code: [form, atts]
    doc,      \* the document handed to the code: plain text or HTML
    inst,     \* whether a FortyF instance exists: "none" | "ready"
    cache,    \* the instance __dict__ entries written by cached_property
    runs,     \* how often each lazily computed step has been executed
    modules,  \* the modules the function-level imports of the code can load
    last      \* the outcome of the last call (return value or exception)

vars == <<filing, doc, inst, cache, runs, modules, last>>

\* The modules imported inside functions: bs4 by parse_subsidiaries, mda_text
\* and aif_text, edgar.documents by aif_document and document.
AllModules == {"bs4", "edgar.documents"}

(***************************************************************************)
(* Bounds of the model                                                     *)
(***************************************************************************)
MaxAtts == 3
MaxFailures == 1

(***************************************************************************)
(* Python string primitives                                                *)
(***************************************************************************)
None == <<>>
Some(v) == <<v>>

LowerCase == <<"a","b","c","d","e","f","g","h","i","j","k","l","m","n","o","p","q","r","s","t","u","v","w","x","y","z">>
UpperCase == <<"A","B","C","D","E","F","G","H","I","J","K","L","M","N","O","P","Q","R","S","T","U","V","W","X","Y","Z">>
Digits == {"0","1","2","3","4","5","6","7","8","9"}
\* Characters outside ASCII are written as named one-element tokens.
NBSP == "NBSP"
LDQUO == "LDQUO"
RDQUO == "RDQUO"
NDASH == "NDASH"
MDASH == "MDASH"
\* The other characters of str.isspace(): vertical tab, the separators
\* U+001C to U+001F, next line, and the Unicode spaces.
VT == "VT"
InformationSeparators == {"FS", "GS", "RS", "US"}
NEL == "NEL"
UnicodeSpaces == {"U+1680", "U+2000", "U+2001", "U+2002", "U+2003", "U+2004", "U+2005",
                  "U+2006", "U+2007", "U+2008", "U+2009", "U+200A", "U+2028", "U+2029",
                  "U+202F", "U+205F", "U+3000"}
\* str.isspace() and \s of the re module
Whitespace == {" ", "\n", "\t", "\r", "\f", VT, NBSP, NEL}
              \cup InformationSeparators \cup UnicodeSpaces

LowerSet == {LowerCase[i] : i \in 1..26}
UpperSet == {UpperCase[i] : i \in 1..26}
IsLower(c) == c \in LowerSet
IsUpper(c) == c \in UpperSet
IsAlpha(c) == IsLower(c) \/ IsUpper(c)
\* \w of the re module, on the model's ASCII alphabet
IsWordChar(c) == IsAlpha(c) \/ c \in Digits \/ c = "_"

ToUpper == [c \in LowerSet |-> UpperCase[CHOOSE i \in 1..26 : LowerCase[i] = c]]
ToLower == [c \in UpperSet |-> LowerCase[CHOOSE i \in 1..26 : UpperCase[i] = c]]
UpChar(c) == IF IsLower(c) THEN ToUpper[c] ELSE c
LoChar(c) == IF IsUpper(c) THEN ToLower[c] ELSE c

\* str.upper() / str.lower()
Upper(s) == [i \in 1..Len(s) |-> UpChar(s[i])]
Lower(s) == [i \in 1..Len(s) |-> LoChar(s[i])]

\* kw in s
Contains(kw, s) ==
    \E i \in 0..(Len(s) - Len(kw)) : \A j \in 1..Len(kw) : s[i + j] = kw[j]

\* s.startswith(p) / s.endswith(p)
StartsWith(s, p) == Len(p) <= Len(s) /\ SubSeq(s, 1, Len(p)) = p
EndsWith(s, p) == Len(p) <= Len(s) /\ SubSeq(s, Len(s) - Len(p) + 1, Len(s)) = p

\* s.strip()
Strip(s) ==
    LET keep == {i \in 1..Len(s) : s[i] \notin Whitespace}
    IN  IF keep = {} THEN <<>>
        ELSE SubSeq(s, CHOOSE i \in keep : \A j \in keep : i <= j,
                       CHOOSE i \in keep : \A j \in keep : j <= i)

\* s.split('/')[-1]
LastPathPart(s) ==
    LET slashes == {i \in 1..Len(s) : s[i] = "/"}
    IN  IF slashes = {} THEN s
        ELSE SubSeq(s, (CHOOSE i \in slashes : \A j \in slashes : j <= i) + 1, Len(s))

\* re.search(r'\bAIF\b', s): the word w not touching another word character
HasWord(w, s) ==
    \E i \in 0..(Len(s) - Len(w)) :
        /\ \A j \in 1..Len(w) : s[i + j] = w[j]
        /\ (i = 0 \/ ~IsWordChar(s[i]))
        /\ (i + Len(w) = Len(s) \/ ~IsWordChar(s[i + Len(w) + 1]))

Min(a, b) == IF a <= b THEN a ELSE b
Max(a, b) == IF a >= b THEN a ELSE b
SetMin(S) == CHOOSE x \in S : \A y \in S : x <= y

(***************************************************************************)
(* AIF identification                                                      *)
(***************************************************************************)
_SKIP_TYPES == {
    <<"G","R","A","P","H","I","C">>, <<"E","X","-","1","0","1",".","S","C","H">>, <<"E","X","-","1","0","1",".","C","A","L">>, <<"E","X","-","1","0","1",".","D","E","F">>,
    <<"E","X","-","1","0","1",".","L","A","B">>, <<"E","X","-","1","0","1",".","P","R","E">>, <<"X","M","L">>, <<>>,
    <<"E","X","-","2","3",".","1">>, <<"E","X","-","2","3",".","2">>, <<"E","X","-","2","3",".","3">>, <<"E","X","-","2","3",".","4">>,
    <<"E","X","-","3","1",".","1">>, <<"E","X","-","3","1",".","2">>, <<"E","X","-","3","2",".","1">>, <<"E","X","-","3","2",".","2">>,
    <<"E","X","-","9","7">>, <<"E","X","-","9","7",".","1">>, <<"E","X","-","3","2">> }

_MAJOR_EXHIBIT_THRESHOLD == 100000
SniffWindow == 80000

_AIF_CONTENT_SIGNALS == {
    <<"C","O","R","P","O","R","A","T","E"," ","S","T","R","U","C","T","U","R","E">>, <<"D","E","S","C","R","I","P","T","I","O","N"," ","O","F"," ","T","H","E"," ","B","U","S","I","N","E","S","S">>,
    <<"G","E","N","E","R","A","L"," ","D","E","V","E","L","O","P","M","E","N","T"," ","O","F"," ","T","H","E"," ","B","U","S","I","N","E","S","S">>, <<"R","I","S","K"," ","F","A","C","T","O","R","S">> }

\* (getattr(att, 'document_type', '') or '').strip()
DocType(att) == Strip(att.document_type)
\* (getattr(att, 'description', '') or '').upper()
Desc(att) == Upper(att.description)
\* url.split('/')[-1].lower()
Filename(att) == Lower(LastPathPart(att.url))
\* url.endswith(('.htm', '.html', '.xhtml'))
IsHtmlUrl(url) ==
    EndsWith(url, <<".","h","t","m">>) \/ EndsWith(url, <<".","h","t","m","l">>) \/ EndsWith(url, <<".","x","h","t","m","l">>)
\* Mutant of SizeOrZero: an unknown size counts as a large one.
SizeUnknownIsLarge(att) ==
    IF att.size = None THEN _MAJOR_EXHIBIT_THRESHOLD + 1 ELSE att.size[1]
\* (getattr(a, 'size', None) or 0)
SizeOrZero(att) == IF att.size = None THEN 0 ELSE att.size[1]

\* Mutant of ScanClass: the skip-type and URL-extension tests are left out.
ScanClassKeepsSkipped(att) ==
    IF DocType(att) \in {<<"E","X","-","1">>, <<"E","X","-","1",".","1">>, <<"E","X","-","1",".","2">>} THEN "ex1"
    ELSE IF Contains(<<"A","N","N","U","A","L"," ","I","N","F","O","R","M","A","T","I","O","N">>, Desc(att)) \/ HasWord(<<"A","I","F">>, Desc(att))
         THEN "aif_desc"
    ELSE IF /\ StartsWith(DocType(att), <<"E","X","-","9","9">>)
            /\ \E kw \in {<<"a","n","n","u","a","l">>, <<"a","i","f">>, <<"a","n","n","u","a","l","i","n","f","o","r","m","a","t","i","o","n">>} :
                   Contains(kw, Filename(att))
         THEN "ex99_named"
    ELSE IF StartsWith(DocType(att), <<"E","X","-","9","9">>) THEN "ex99"
    ELSE IF DocType(att) \in {<<"4","0","-","F">>, <<"4","0","-","F","/","A">>} THEN "main_40f"
    ELSE "other"
\* The if/elif chain of the loop body of _scan_attachments for one attachment.
ScanClass(att) ==
    IF DocType(att) \in _SKIP_TYPES THEN "skip"
    ELSE IF ~IsHtmlUrl(att.url) THEN "skip"
    ELSE IF DocType(att) \in {<<"E","X","-","1">>, <<"E","X","-","1",".","1">>, <<"E","X","-","1",".","2">>} THEN "ex1"
    ELSE IF Contains(<<"A","N","N","U","A","L"," ","I","N","F","O","R","M","A","T","I","O","N">>, Desc(att)) \/ HasWord(<<"A","I","F">>, Desc(att))
         THEN "aif_desc"
    ELSE IF /\ StartsWith(DocType(att), <<"E","X","-","9","9">>)
            /\ \E kw \in {<<"a","n","n","u","a","l">>, <<"a","i","f">>, <<"a","n","n","u","a","l","i","n","f","o","r","m","a","t","i","o","n">>} :
                   Contains(kw, Filename(att))
         THEN "ex99_named"
    ELSE IF StartsWith(DocType(att), <<"E","X","-","9","9">>) THEN "ex99"
    ELSE IF DocType(att) \in {<<"4","0","-","F">>, <<"4","0","-","F","/","A">>} THEN "main_40f"
    ELSE "other"

OfClass(atts, c) == SelectSeq(atts, LAMBDA a : ScanClass(a) = c)

_scan_attachments(attachments) ==
    [ ex1_candidates        |-> OfClass(attachments, "ex1"),
      aif_desc_candidates   |-> OfClass(attachments, "aif_desc"),
      ex99_named_candidates |-> OfClass(attachments, "ex99_named"),
      ex99_candidates       |-> OfClass(attachments, "ex99"),
      \* main_40f = att is overwritten by every later 40-F attachment
      main_40f |-> LET m == OfClass(attachments, "main_40f")
                   IN  IF m = <<>> THEN None ELSE Some(m[Len(m)]) ]

(***************************************************************************)
(* download_text, the external collaborator: each call raises, returns a   *)
(* falsy value, or returns the HTML.  An HTML document is `pad` characters *)
(* of markup that hold no signal phrase, followed by `body`; `text` names  *)
(* the plain text an HTML parser extracts from it.                         *)
(***************************************************************************)
NoHtml == [pad |-> 0, body |-> <<>>, text |-> "empty"]
HtmlDocs == {
    [pad |-> 0,     body |-> <<"C","o","r","p","o","r","a","t","e"," ","S","t","r","u","c","t","u","r","e"," ","R","i","s","k"," ","F","a","c","t","o","r","s">>, text |-> "aif"],
    [pad |-> 79990, body |-> <<"C","o","r","p","o","r","a","t","e"," ","S","t","r","u","c","t","u","r","e"," ","R","i","s","k"," ","F","a","c","t","o","r","s">>, text |-> "nosections"],
    [pad |-> 0,     body |-> <<"R","i","s","k"," ","F","a","c","t","o","r","s">>, text |-> "aif"],
    [pad |-> 0,     body |-> <<"R","e","s","u","l","t","s"," ","o","f"," ","O","p","e","r","a","t","i","o","n","s"," ","L","i","q","u","i","d","i","t","y"," ","a","n","d"," ","C","a","p","i","t","a","l"," ","R","e","s","o","u","r","c","e","s">>,
                    text |-> "nosections"],
    [pad |-> 0,     body |-> <<"r","e","s","u","l","t","s"," ","o","f"," ","o","p","e","r","a","t","i","o","n","s">>, text |-> "nosections"],
    [pad |-> 79975, body |-> <<"R","e","s","u","l","t","s"," ","o","f"," ","O","p","e","r","a","t","i","o","n","s"," ","L","i","q","u","i","d","i","t","y"," ","a","n","d"," ","C","a","p","i","t","a","l"," ","R","e","s","o","u","r","c","e","s">>,
                    text |-> "nosections"],
    [pad |-> 0,     body |-> <<"C","o","n","s","e","n","t">>, text |-> "empty"] }

Raised == [kind |-> "raise", html |-> NoHtml]
Falsy == [kind |-> "falsy", html |-> NoHtml]
Responses == {Raised, Falsy} \cup {[kind |-> "text", html |-> h] : h \in HtmlDocs}

\* (download_text(url) or '')[:80_000].upper()
SniffPrefix(resp) ==
    LET h == IF resp.kind = "text" THEN resp.html ELSE NoHtml
    IN  Upper(SubSeq(h.body, 1, Min(Len(h.body), Max(0, SniffWindow - h.pad))))

\* _has_aif_content for the download outcome resp; an exception of
\* download_text is not caught and leaves the function.
_has_aif_content(resp) ==
    IF resp.kind = "raise" THEN [raised |-> TRUE, val |-> FALSE]
    ELSE [raised |-> FALSE,
          val |-> \E sig \in _AIF_CONTENT_SIGNALS : Contains(sig, SniffPrefix(resp))]

Ret(att, reason, log) ==
    [kind |-> "return", att |-> att, reason |-> reason, log |-> log]
Exc(name, log) ==
    [kind |-> "raise", att |-> None, reason |-> name, log |-> log]

\* for att in major: if _has_aif_content(att.url): return att, ...
\* The set of ways the loop can end; log lists the downloads made so far,
\* each with the answer download_text gave.
RECURSIVE AifSniffLoop(_, _, _)
AifSniffLoop(major, i, log) ==
    IF i > Len(major) THEN {[kind |-> "exhausted", att |-> None, reason |-> "", log |-> log]}
    ELSE UNION {
        LET r == _has_aif_content(resp)
            log2 == Append(log, [url |-> major[i].url, resp |-> resp])
        IN  IF r.raised THEN {Exc("DownloadError", log2)}
            ELSE IF r.val THEN {Ret(Some(major[i]), "EX-99.x with AIF content", log2)}
            ELSE AifSniffLoop(major, i + 1, log2)
        : resp \in Responses }

\* The tiers with the main 40-F document tried before the content sniff
\* (tiers 4 and 5 swapped).
AifTiersMainBeforeSniff(s, aif_specific, major) ==
        IF s.ex1_candidates # <<>>
        THEN {Ret(Some(s.ex1_candidates[1]), "EX-1/EX-1.1/EX-1.2 (standard MJDS)", <<>>)}
        ELSE IF s.aif_desc_candidates # <<>>
        THEN {Ret(Some(s.aif_desc_candidates[1]), "Description mentions ANNUAL INFORMATION", <<>>)}
        ELSE IF s.ex99_named_candidates # <<>>
        THEN IF aif_specific # <<>>
             THEN {Ret(Some(aif_specific[1]), "EX-99.x with AIF in filename", <<>>)}
             ELSE {Ret(Some(s.ex99_named_candidates[1]), "EX-99.x with AIF filename keywords", <<>>)}
        ELSE IF s.main_40f # None
        THEN {Ret(s.main_40f, "40-F main document (AIF embedded inline)", <<>>)}
        ELSE UNION {
            IF r.kind # "exhausted" THEN {r}
            ELSE IF major # <<>>
            THEN {Ret(Some(major[1]), "EX-99.x first major exhibit (fallback)", r.log)}
            ELSE {Ret(None, "AIF not found", r.log)}
            : r \in AifSniffLoop(major, 1, <<>>) }

\* The priority chain of _find_aif_attachment on the scan result s, the
\* 'aif'-named EX-99.x exhibits and the major EX-99.x exhibits: every outcome
\* the call can have, one for each way the downloads of the content-sniff tier
\* can answer.
AifTiers(s, aif_specific, major) ==
        IF s.ex1_candidates # <<>>
        THEN {Ret(Some(s.ex1_candidates[1]), "EX-1/EX-1.1/EX-1.2 (standard MJDS)", <<>>)}
        ELSE IF s.aif_desc_candidates # <<>>
        THEN {Ret(Some(s.aif_desc_candidates[1]), "Description mentions ANNUAL INFORMATION", <<>>)}
        ELSE IF s.ex99_named_candidates # <<>>
        THEN IF aif_specific # <<>>
             THEN {Ret(Some(aif_specific[1]), "EX-99.x with AIF in filename", <<>>)}
             ELSE {Ret(Some(s.ex99_named_candidates[1]), "EX-99.x with AIF filename keywords", <<>>)}
        ELSE UNION {
            IF r.kind # "exhausted" THEN {r}
            ELSE IF s.main_40f # None
            THEN {Ret(s.main_40f, "40-F main document (AIF embedded inline)", r.log)}
            ELSE IF major # <<>>
            THEN {Ret(Some(major[1]), "EX-99.x first major exhibit (fallback)", r.log)}
            ELSE {Ret(None, "AIF not found", r.log)}
            : r \in AifSniffLoop(major, 1, <<>>) }

\* Mutant of AifCandidates: the large EX-99.x exhibits are content-sniffed
\* before the exhibit-type, description and filename tiers are looked at.
AifCandidatesSniffFirst(s) ==
    UNION {
        IF r.kind # "exhausted" THEN {r}
        ELSE AifTiers(s,
                 SelectSeq(s.ex99_named_candidates,
                           LAMBDA a : Contains(<<"a","i","f">>, Lower(LastPathPart(a.url)))),
                 <<>>)
        : r \in AifSniffLoop(SelectSeq(s.ex99_candidates,
                                 LAMBDA a : SizeOrZero(a) > _MAJOR_EXHIBIT_THRESHOLD), 1, <<>>) }

\* aif_specific and major, taken from the scan result
AifCandidates(s) ==
    AifTiers(s,
             SelectSeq(s.ex99_named_candidates,
                       LAMBDA a : Contains(<<"a","i","f">>, Lower(LastPathPart(a.url)))),
             SelectSeq(s.ex99_candidates,
                       LAMBDA a : SizeOrZero(a) > _MAJOR_EXHIBIT_THRESHOLD))

\* _find_aif_attachment(filing)
_find_aif_attachment(f) == AifCandidates(_scan_attachments(f.atts))

(***************************************************************************)
(* MD&A identification                                                     *)
(***************************************************************************)
_MDA_CONTENT_SIGNALS == {
    <<"M","A","N","A","G","E","M","E","N","T","'","S"," ","D","I","S","C","U","S","S","I","O","N"," ","A","N","D"," ","A","N","A","L","Y","S","I","S">>, <<"M","A","N","A","G","E","M","E","N","T"," ","D","I","S","C","U","S","S","I","O","N"," ","A","N","D"," ","A","N","A","L","Y","S","I","S">>,
    <<"R","E","S","U","L","T","S"," ","O","F"," ","O","P","E","R","A","T","I","O","N","S">>, <<"L","I","Q","U","I","D","I","T","Y"," ","A","N","D"," ","C","A","P","I","T","A","L"," ","R","E","S","O","U","R","C","E","S">> }

HasMdaContentAnySignal(resp) ==
    IF resp.kind = "raise" THEN [raised |-> TRUE, val |-> FALSE]
    ELSE [raised |-> FALSE,
          val |-> \E sig \in _MDA_CONTENT_SIGNALS : Contains(sig, SniffPrefix(resp))]
\* _has_mda_content for the download outcome resp: two or more signals.
_has_mda_content(resp) ==
    IF resp.kind = "raise" THEN [raised |-> TRUE, val |-> FALSE]
    ELSE [raised |-> FALSE,
          val |-> Cardinality({sig \in _MDA_CONTENT_SIGNALS :
                                  Contains(sig, SniffPrefix(resp))}) >= 2]

\* str(getattr(aif_attachment, 'url', '') or '') if aif_attachment else ''
AifUrl(aif_attachment) == IF aif_attachment = None THEN <<>> ELSE aif_attachment[1].url

\* Mutant of MdaClass: the attachment already chosen as the AIF is not skipped.
MdaClassKeepsAif(att, aif_url) ==
    IF DocType(att) \in _SKIP_TYPES THEN "skip"
    ELSE IF ~IsHtmlUrl(att.url) THEN "skip"
    ELSE IF /\ ~StartsWith(DocType(att), <<"E","X","-","9","9">>)
            /\ DocType(att) \notin {<<"4","0","-","F">>, <<"4","0","-","F","/","A">>}
         THEN "skip"
    ELSE IF \/ Contains(<<"M","D","&","A">>, Desc(att))
            \/ Contains(<<"M","A","N","A","G","E","M","E","N","T"," ","D","I","S","C","U","S","S","I","O","N">>, Desc(att))
            \/ Contains(<<"M","A","N","A","G","E","M","E","N","T","'","S"," ","D","I","S","C","U","S","S","I","O","N">>, Desc(att))
         THEN "desc"
    ELSE IF /\ StartsWith(DocType(att), <<"E","X","-","9","9">>)
            /\ \E kw \in {<<"m","d","a">>, <<"m","a","n","a","g","e","m","e","n","t","d","i","s","c","u","s","s","i","o","n">>} : Contains(kw, Filename(att))
         THEN "filename"
    ELSE IF StartsWith(DocType(att), <<"E","X","-","9","9">>) THEN "ex99"
    ELSE "other"

\* The loop body of _find_mda_attachment for one attachment.
MdaClass(att, aif_url) ==
    IF DocType(att) \in _SKIP_TYPES THEN "skip"
    ELSE IF ~IsHtmlUrl(att.url) THEN "skip"
    ELSE IF aif_url # <<>> /\ att.url = aif_url THEN "skip"
    ELSE IF /\ ~StartsWith(DocType(att), <<"E","X","-","9","9">>)
            /\ DocType(att) \notin {<<"4","0","-","F">>, <<"4","0","-","F","/","A">>}
         THEN "skip"
    ELSE IF \/ Contains(<<"M","D","&","A">>, Desc(att))
            \/ Contains(<<"M","A","N","A","G","E","M","E","N","T"," ","D","I","S","C","U","S","S","I","O","N">>, Desc(att))
            \/ Contains(<<"M","A","N","A","G","E","M","E","N","T","'","S"," ","D","I","S","C","U","S","S","I","O","N">>, Desc(att))
         THEN "desc"
    ELSE IF /\ StartsWith(DocType(att), <<"E","X","-","9","9">>)
            /\ \E kw \in {<<"m","d","a">>, <<"m","a","n","a","g","e","m","e","n","t","d","i","s","c","u","s","s","i","o","n">>} : Contains(kw, Filename(att))
         THEN "filename"
    ELSE IF StartsWith(DocType(att), <<"E","X","-","9","9">>) THEN "ex99"
    ELSE "other"

RECURSIVE MdaSniffLoop(_, _, _)
MdaSniffLoop(major, i, log) ==
    IF i > Len(major) THEN {Ret(None, "MD&A not found", log)}
    ELSE UNION {
        LET r == _has_mda_content(resp)
            log2 == Append(log, [url |-> major[i].url, resp |-> resp])
        IN  IF r.raised THEN {Exc("DownloadError", log2)}
            ELSE IF r.val THEN {Ret(Some(major[i]), "EX-99.x with MD&A content", log2)}
            ELSE MdaSniffLoop(major, i + 1, log2)
        : resp \in Responses }

\* _find_mda_attachment(filing, aif_attachment): every outcome the call can have.
_find_mda_attachment(f, aif_attachment) ==
    LET aif_url == AifUrl(aif_attachment)
        desc_candidates == SelectSeq(f.atts, LAMBDA a : MdaClass(a, aif_url) = "desc")
        filename_candidates == SelectSeq(f.atts, LAMBDA a : MdaClass(a, aif_url) = "filename")
        ex99_candidates == SelectSeq(f.atts, LAMBDA a : MdaClass(a, aif_url) = "ex99")
        major == SelectSeq(ex99_candidates,
                           LAMBDA a : SizeOrZero(a) > _MAJOR_EXHIBIT_THRESHOLD)
    IN  IF desc_candidates # <<>>
        THEN {Ret(Some(desc_candidates[1]), "Description mentions MD&A", <<>>)}
        ELSE IF filename_candidates # <<>>
        THEN {Ret(Some(filename_candidates[1]), "EX-99.x with MD&A in filename", <<>>)}
        ELSE MdaSniffLoop(major, 1, <<>>)

(***************************************************************************)
(* Section detection on plain text.                                        *)
(*                                                                         *)
(* The regular-expression engine is external.  A text is modelled by its   *)
(* length and by the heading matches re.finditer yields in it, in text     *)
(* order; each match carries its pattern, its offset, the matched text     *)
(* (m.group()), the text before it (text[:m.start()], as far as the        *)
(* filters look) and the text after it (text[m.end():]).                   *)
(***************************************************************************)
_SECTION_PATTERNS == <<
    "CORPORATE_STRUCTURE", "GENERAL_DEVELOPMENT_OF_THE_BUSINESS",
    "DESCRIPTION_OF_THE_BUSINESS", "BUSINESS_OF", "BUSINESS_OPERATIONS",
    "DESCRIPTION_OF_CAPITAL_STRUCTURE", "MARKET_FOR_SECURITIES", "DIVIDENDS",
    "DIRECTORS_AND_OFFICERS", "RISK_FACTORS", "LEGAL_PROCEEDINGS",
    "MATERIAL_PROPERTIES", "CODE_OF_BUSINESS_CONDUCT", "BUSINESS_OVERVIEW" >>

_BUSINESS_STARTS == <<
    "DESCRIPTION_OF_THE_BUSINESS", "BUSINESS_OF", "DESCRIPTION_OF_BUSINESS",
    "BUSINESS_OPERATIONS", "BUSINESS_OVERVIEW", "DESCRIPTION_OF_OPERATIONS" >>

_BUSINESS_ENDS == <<
    "GENERAL_DEVELOPMENT_OF_THE_BUSINESS", "THREE_YEAR_HISTORY",
    "DESCRIPTION_OF_CAPITAL_STRUCTURE", "MATERIAL_PROPERTIES", "LEGAL_PROCEEDINGS",
    "RISK_FACTORS", "CODE_OF_BUSINESS_CONDUCT", "MARKET_FOR_SECURITIES",
    "DIRECTORS_AND_OFFICERS" >>

MinContentFloor == 5000
MinContentCeiling == 10000
DedupDistance == 200
TocWindow == 500
TocLineWindow == 300
XrefWindow == 80

\* s.lstrip() / s.rstrip()
LStrip(s) ==
    LET keep == {i \in 1..Len(s) : s[i] \notin Whitespace}
    IN  IF keep = {} THEN <<>>
        ELSE SubSeq(s, CHOOSE i \in keep : \A j \in keep : i <= j, Len(s))
RStrip(s) ==
    LET keep == {i \in 1..Len(s) : s[i] \notin Whitespace}
    IN  IF keep = {} THEN <<>>
        ELSE SubSeq(s, 1, CHOOSE i \in keep : \A j \in keep : j <= i)

\* Length of the longest run of characters of class cls starting at s[i].
RECURSIVE Run(_, _, _)
Run(s, i, cls) == IF i > Len(s) \/ s[i] \notin cls THEN 0 ELSE 1 + Run(s, i + 1, cls)

\* re.sub(r'\s+', ' ', s).strip()
RECURSIVE CollapseWs(_, _)
CollapseWs(s, i) ==
    IF i > Len(s) THEN <<>>
    ELSE IF s[i] \in Whitespace
         THEN <<" ">> \o CollapseWs(s, i + Run(s, i, Whitespace))
         ELSE <<s[i]>> \o CollapseWs(s, i + 1)
NormalizeWs(s) == Strip(CollapseWs(s, 1))

\* str.title()
Title(s) ==
    [i \in 1..Len(s) |-> IF i = 1 \/ ~IsAlpha(s[i - 1]) THEN UpChar(s[i]) ELSE LoChar(s[i])]

\* Mutant of InlinePageNumber: any leading number is a page number, whatever
\* follows it.
InlinePageNumberAnyFollower(stripped) == Run(stripped, 1, Digits) >= 1
\* The inline rule of _is_toc_entry on stripped = after.lstrip():
\*   not re.match(r'^\d+[.]\d', stripped) and re.match(r'^\d+(?:\s|$|[A-Z])', stripped)
InlinePageNumber(stripped) ==
    LET d == Run(stripped, 1, Digits)
        subsection == d >= 1 /\ d + 2 <= Len(stripped)
                      /\ stripped[d + 1] = "." /\ stripped[d + 2] \in Digits
        bare == d >= 1 /\ (\/ d = Len(stripped)
                           \/ stripped[d + 1] \in Whitespace
                           \/ IsUpper(stripped[d + 1]))
    IN  ~subsection /\ bare

\* One match of
\*   (?:^|\n)\s*\xa0?\s*(\d{1,3}(?:[\-–—]\d{1,3})?)\s*\xa0?\s*(?:\n|$)
\* starting at offset p of s (0-based): the offset where it ends, or -1.
PageNumberLineEnd(s, p) ==
    IF ~(p = 0 \/ (p < Len(s) /\ s[p + 1] = "\n")) THEN -1
    ELSE
    LET q0 == IF p = 0 THEN 0 ELSE p + 1
        q1 == q0 + Run(s, q0 + 1, Whitespace)
        d1 == Run(s, q1 + 1, Digits)
        q2 == q1 + d1
        dash == q2 < Len(s) /\ s[q2 + 1] \in {"-", NDASH, MDASH}
        d2 == IF dash THEN Run(s, q2 + 2, Digits) ELSE 0
        q3 == IF dash THEN q2 + 1 + d2 ELSE q2
        r == Run(s, q3 + 1, Whitespace)
        newlines == {j \in (q3 + 1)..(q3 + r) : s[j] = "\n"}
    IN  IF d1 < 1 \/ d1 > 3 THEN -1
        ELSE IF dash /\ (d2 < 1 \/ d2 > 3) THEN -1
        ELSE IF q3 + r = Len(s) THEN Len(s)
        ELSE IF newlines # {} THEN CHOOSE j \in newlines : \A k \in newlines : k <= j
        ELSE -1

\* len(re.findall(...)): the non-overlapping matches found scanning from offset p.
\* e is where a match starting at p ends, or -1.
RECURSIVE PageNumberLines(_, _)
RECURSIVE PageNumberLinesAfter(_, _, _)
PageNumberLinesAfter(s, p, e) ==
    IF e >= 0 THEN 1 + PageNumberLines(s, e) ELSE PageNumberLines(s, p + 1)
PageNumberLines(s, p) ==
    IF p > Len(s) THEN 0 ELSE PageNumberLinesAfter(s, p, PageNumberLineEnd(s, p))

_is_toc_entry(m) ==
    LET after == SubSeq(m.after, 1, Min(Len(m.after), TocWindow))
        stripped == LStrip(after)
        short_after == SubSeq(after, 1, Min(Len(after), TocLineWindow))
    IN  IF InlinePageNumber(stripped) THEN TRUE
        ELSE PageNumberLines(short_after, 0) >= 2

\* re.search(r'\b(?:see|under)$', t, re.IGNORECASE) for a right-stripped t
EndsWithSeeUnder(t) ==
    \E w \in {<<"s","e","e">>, <<"u","n","d","e","r">>} :
        /\ EndsWith(Lower(t), w)
        /\ (Len(t) = Len(w) \/ ~IsWordChar(t[Len(t) - Len(w)]))

_is_cross_reference(m) ==
    LET before == SubSeq(m.before, Max(1, Len(m.before) - XrefWindow + 1), Len(m.before))
        t == RStrip(before)
        \* re.search(r'["“”]\s*$', before)
        in_quotes == t # <<>> /\ t[Len(t)] \in {"\"", LDQUO, RDQUO}
        \* re.search(r'\b(?:see|under)\s+["“]?\s*$', before, re.IGNORECASE)
        see_plain == Len(before) > Len(t) /\ EndsWithSeeUnder(t)
        see_quote == /\ t # <<>> /\ t[Len(t)] \in {"\"", LDQUO}
                     /\ LET t1 == SubSeq(t, 1, Len(t) - 1)
                        IN  Len(t1) > Len(RStrip(t1)) /\ EndsWithSeeUnder(RStrip(t1))
        \* re.search(r'["“](?:Section|Item|Appendix)\s', before, re.IGNORECASE)
        quoted_pointer ==
            \E i \in 1..Len(before) : \E w \in {<<"s","e","c","t","i","o","n">>, <<"i","t","e","m">>, <<"a","p","p","e","n","d","i","x">>} :
                /\ before[i] \in {"\"", LDQUO}
                /\ i + Len(w) + 1 <= Len(before)
                /\ Lower(SubSeq(before, i + 1, i + Len(w))) = w
                /\ before[i + Len(w) + 1] \in Whitespace
        newlines == {i \in 1..Len(before) : before[i] = "\n"}
        gap == IF newlines = {} THEN before
               ELSE SubSeq(before, (CHOOSE i \in newlines : \A j \in newlines : j <= i) + 1,
                           Len(before))
        g == RStrip(gap)
        \* re.search(r'[a-z][,;:]\s*$', gap)
        punctuated == Len(g) >= 2 /\ g[Len(g)] \in {",", ";", ":"} /\ IsLower(g[Len(g) - 1])
        \* re.search(r'[a-z]\s+$', gap)
        trailing_space == Len(gap) > Len(g) /\ g # <<>> /\ IsLower(g[Len(g)])
        \* gap.strip().split()[-1]
        word_starts == {i \in 1..Len(g) : g[i] \notin Whitespace
                                          /\ (i = 1 \/ g[i - 1] \in Whitespace)}
        last_word_first == g[CHOOSE i \in word_starts : \A j \in word_starts : j <= i]
    IN  IF in_quotes THEN TRUE
        ELSE IF see_plain \/ see_quote THEN TRUE
        ELSE IF quoted_pointer THEN TRUE
        ELSE IF Strip(gap) # <<>> /\ punctuated THEN TRUE
        ELSE IF Strip(gap) # <<>> /\ trailing_space THEN IsLower(last_word_first)
        ELSE FALSE

\* re.finditer(pattern, text, re.IGNORECASE)
FindIter(text, pattern) == SelectSeq(text.matches, LAMBDA m : m.pat = pattern)

\* _find_first_clean_match: the first match past min_pos that neither filter rejects.
IsClean(m, min_pos) ==
    m.start > min_pos /\ ~_is_toc_entry(m) /\ ~_is_cross_reference(m)
FirstOrNone(ms) == IF ms = <<>> THEN None ELSE Some(ms[1])
\* Mutant of _find_first_clean_match: only the first match past min_pos is
\* looked at; when a filter rejects it the pattern has no match.
FindFirstMatchNoRetry(text, pattern, min_pos) ==
    LET past == SelectSeq(FindIter(text, pattern), LAMBDA m : m.start > min_pos)
    IN  IF past = <<>> THEN None
        ELSE IF IsClean(past[1], min_pos) THEN Some(past[1]) ELSE None
_find_first_clean_match(text, pattern, min_pos) ==
    FirstOrNone(SelectSeq(FindIter(text, pattern), LAMBDA m : IsClean(m, min_pos)))

\* min(max(5000, int(len(full_text) * 0.03)), 10_000)
MinContentPos(text) ==
    Min(Max(MinContentFloor, (text.len * 3) \div 100), MinContentCeiling)

\* Mutant of SortByPos: the found list is left in pattern order.
SortByPosSkipped(found) == found

\* found.sort(key=lambda t: t[0]): a stable sort, by insertion
RECURSIVE SortByPos(_)
SortByPos(found) ==
    IF found = <<>> THEN <<>>
    ELSE LET x == found[Len(found)]
             rest == SortByPos(SubSeq(found, 1, Len(found) - 1))
             le == {i \in 1..Len(rest) : rest[i].pos <= x.pos}
             k == IF le = {} THEN 0 ELSE CHOOSE i \in le : \A j \in le : j <= i
         IN  SubSeq(rest, 1, k) \o <<x>> \o SubSeq(rest, k + 1, Len(rest))

\* The deduplication loop: an entry closer than 200 characters to the last
\* entry kept is dropped.
RECURSIVE Dedupe(_, _, _)
Dedupe(found, i, deduped) ==
    IF i > Len(found) THEN deduped
    ELSE IF deduped # <<>> /\ found[i].pos - deduped[Len(deduped)].pos < DedupDistance
         THEN Dedupe(found, i + 1, deduped)
         ELSE Dedupe(found, i + 1, Append(deduped, found[i]))

\* if m: name = re.sub(r'\s+', ' ', m.group()).strip(); found.append((m.start(), name))
FoundEntry(m) ==
    IF m = None THEN <<>> ELSE <<[pos |-> m[1].start, name |-> NormalizeWs(m[1].group)]>>

\* The loop over _SECTION_PATTERNS: one (m.start(), name) per pattern with a clean match.
RECURSIVE FoundFrom(_, _, _)
FoundFrom(text, k, min_pos) ==
    IF k > Len(_SECTION_PATTERNS) THEN <<>>
    ELSE FoundEntry(_find_first_clean_match(text, _SECTION_PATTERNS[k], min_pos))
         \o FoundFrom(text, k + 1, min_pos)

_find_section_positions(full_text) ==
    Dedupe(SortByPos(FoundFrom(full_text, 1, MinContentPos(full_text))), 1, <<>>)

\* Mutant of _extract_section_text: every section runs to the end of the text.
ExtractToEndOfText(full_text, positions, idx) ==
    [start |-> positions[idx].pos, end |-> full_text.len]

\* _extract_section_text: the slice full_text[start:end] it carves (the result
\* is that slice with whitespace runs collapsed and the ends stripped).
_extract_section_text(full_text, positions, idx) ==
    [start |-> positions[idx].pos,
     end   |-> IF idx + 1 <= Len(positions) THEN positions[idx + 1].pos ELSE full_text.len]

(***************************************************************************)
(* The attachments a filing index can list                                 *)
(***************************************************************************)
Att(t, d, u, sz) == [document_type |-> t, description |-> d, url |-> u, size |-> sz]

AttPool == {
    Att(<<"E","X","-","1">>, <<>>, <<"/","a","/","e","x","1",".","h","t","m">>, Some(250000)),
    Att(<<"E","X","-","1",".","2">>, <<"A","I","F">>, <<"/","a","/","a","i","f",".","p","d","f">>, Some(250000)),
    Att(<<"E","X","-","9","9",".","2">>, <<"A","n","n","u","a","l"," ","I","n","f","o","r","m","a","t","i","o","n"," ","F","o","r","m">>, <<"/","a","/","e","x","9","9","2",".","h","t","m">>, Some(50000)),
    Att(<<"E","X","-","9","9",".","3">>, <<>>, <<"/","a","/","A","I","F","2","0","2","4",".","h","t","m","l">>, None),
    Att(<<"E","X","-","9","9",".","4","\r","\n">>, <<>>, <<"/","a","/","a","n","n","u","a","l","m","d","a",".","h","t","m">>, Some(250000)),
    Att(<<"E","X","-","9","9",".","5">>, <<>>, <<"/","a","/","e","x","9","9","5",".","h","t","m">>, None),
    Att(<<"E","X","-","9","9",".","5">>, <<>>, <<"/","a","/","e","x","9","9","5",".","h","t","m">>, Some(100000)),
    Att(<<"E","X","-","9","9",".","5">>, <<>>, <<"/","a","/","e","x","9","9","5",".","h","t","m">>, Some(100001)),
    Att(<<"E","X","-","9","9",".","6">>, <<>>, <<"/","a","/","e","x","9","9","6",".","x","h","t","m","l">>, Some(50000)),
    Att(<<"E","X","-","9","9",".","6">>, <<>>, <<"/","a","/","e","x","9","9","6",".","x","h","t","m","l">>, Some(250000)),
    Att(<<"4","0","-","F">>, <<>>, <<"/","a","/","m","a","i","n",".","h","t","m">>, Some(300000)),
    Att(<<"4","0","-","F","/","A">>, <<"M","a","n","a","g","e","m","e","n","t","'","s"," ","D","i","s","c","u","s","s","i","o","n">>, <<"/","a","/","a","m","e","n","d",".","h","t","m">>, Some(300000)),
    Att(<<"E","X","-","2","3",".","1">>, <<"C","o","n","s","e","n","t"," ","r","e"," ","A","I","F">>, <<"/","a","/","c","o","n","s","e","n","t",".","h","t","m">>, Some(20000)),
    Att(<<"E","X","-","9","9",".","7">>, <<"M","D","&","A">>, <<"/","a","/","e","x","9","9","7",".","h","t","m">>, Some(50000)),
    Att(<<"E","X","-","9","9",".","8">>, <<"M","D","&","A">>, <<"/","a","/","m","d","a",".","p","d","f">>, Some(250000)) }

\* Attachment lists of a filing index: at most MaxAtts entries, no URL twice.
RECURSIVE AttLists(_)
AttLists(n) ==
    IF n = 0 THEN {<<>>}
    ELSE LET shorter == AttLists(n - 1)
         IN  shorter \cup
             {Append(l, a) : l \in {x \in shorter : Len(x) = n - 1}, a \in AttPool}

DistinctUrls(l) == \A i, j \in 1..Len(l) : i # j => l[i].url # l[j].url

Filings == {[form |-> "40-F", atts |-> l] : l \in {x \in AttLists(MaxAtts) : DistinctUrls(x)}}

(***************************************************************************)
(* State shared by the specifications                                      *)
(***************************************************************************)
NoText == [len |-> 0, matches |-> <<>>]
NoCall == [op |-> "none", arg |-> None, res |-> Ret(None, "", <<>>)]
EmptyCache == [p \in {} |-> None]
NoRuns == [p \in {} |-> 0]

(***************************************************************************)
(* Business-section extraction                                             *)
(***************************************************************************)
\* The test on a detected heading name in _extract_business_section.
IsBusinessName(name) ==
    LET upper == Upper(name)
    IN  \/ Contains(<<"D","E","S","C","R","I","P","T","I","O","N">>, upper) /\ Contains(<<"B","U","S","I","N","E","S","S">>, upper)
        \/ Contains(<<"D","E","V","E","L","O","P","M","E","N","T">>, upper) /\ Contains(<<"B","U","S","I","N","E","S","S">>, upper)
        \/ StartsWith(upper, <<"B","U","S","I","N","E","S","S"," ","O","F">>)
        \/ StartsWith(upper, <<"B","U","S","I","N","E","S","S"," ","O","V","E","R","V","I","E","W">>)
        \/ StartsWith(upper, <<"B","U","S","I","N","E","S","S"," ","O","P","E","R","A","T","I","O","N","S">>)

\* end_pos: the nearest clean end-pattern match past search_from, or the end
\* of the text.
BusinessEnd(full_text, search_from) ==
    LET hits == {_find_first_clean_match(full_text, _BUSINESS_ENDS[e], search_from)
                   : e \in 1..Len(_BUSINESS_ENDS)} \ {None}
    IN  SetMin({h[1].start : h \in hits} \cup {full_text.len})

\* The slice for the first start pattern that has a clean match; hits[k] is
\* the first clean match of start pattern k.
BusinessFrom(full_text, hits) ==
    LET found == {k \in 1..Len(hits) : hits[k] # None}
    IN  IF found = {} THEN None
        ELSE Some([start |-> hits[SetMin(found)][1].start,
                   end |-> BusinessEnd(full_text, hits[SetMin(found)][1].start + 500)])

\* The fallback of _extract_business_section: the first start pattern with a
\* clean match, cut at the nearest clean end-pattern match 500 characters on.
BusinessFallback(full_text) ==
    BusinessFrom(full_text,
                 [k \in 1..Len(_BUSINESS_STARTS) |->
                    _find_first_clean_match(full_text, _BUSINESS_STARTS[k],
                                            MinContentPos(full_text))])

\* The loop of _extract_business_section over the detected positions, then
\* the fallback.
BusinessAmong(full_text, positions) ==
    LET biz == {i \in 1..Len(positions) : IsBusinessName(positions[i].name)}
    IN  IF positions = <<>> THEN None
        ELSE IF biz # {}
        THEN Some(_extract_section_text(full_text, positions, SetMin(biz)))
        ELSE BusinessFallback(full_text)

_extract_business_section(full_text) ==
    BusinessAmong(full_text, _find_section_positions(full_text))

(***************************************************************************)
(* FortyF: the lazily computed properties of one instance.                 *)
(*                                                                         *)
(* Each property is evaluated on (cache, runs) and yields the set of ways  *)
(* the evaluation can end, one for each answer of download_text: the new   *)
(* cache and run counts, and the value returned or the exception raised.   *)
(* functools.cached_property stores a value only when its function        *)
(* returns.                                                                *)
(***************************************************************************)
Steps == {"aif_resolution", "aif_download", "aif_text_extraction",
          "section_detection", "mda_resolution", "mda_download"}

Done(c, r, v) == [cache |-> c, runs |-> r, kind |-> "return", val |-> v]
Fail(c, r, e) == [cache |-> c, runs |-> r, kind |-> "raise", val |-> e]
Bump(r, step) == [r EXCEPT ![step] = @ + 1]

\* cached_property.__get__: the stored value, or the function's result, stored
\* when the function returns.  outs is the set of ways the function can end.
Cached(c, r, p, outs) ==
    IF p \in DOMAIN c THEN {Done(c, r, c[p])}
    ELSE {IF o.kind = "return" THEN Done((p :> o.val) @@ o.cache, o.runs, o.val) ELSE o
          : o \in outs}

\* The plain text an HTML parser extracts from each document.
Heading(st, pat, group, before, after) ==
    [start |-> st, pat |-> pat, group |-> group, before |-> before, after |-> after]

AifText == [len |-> 20000, matches |-> <<
    Heading(1200, "CORPORATE_STRUCTURE", <<"C","O","R","P","O","R","A","T","E"," ","S","T","R","U","C","T","U","R","E">>, <<"\n">>, <<" ","3","\n">>),
    Heading(1300, "RISK_FACTORS", <<"R","I","S","K"," ","F","A","C","T","O","R","S">>, <<"\n">>, <<" ","1","2","\n">>),
    Heading(6000, "CORPORATE_STRUCTURE", <<"C","O","R","P","O","R","A","T","E"," "," ","S","T","R","U","C","T","U","R","E">>, <<"\n","\n">>, <<"\n","N","a","m","e">>),
    Heading(7000, "BUSINESS_OF", <<"B","u","s","i","n","e","s","s"," ","o","f"," ","p","a","y","i","n","g"," ","d","i","v","i","d","e","n","d","s","\n","T","h","e"," ","L","o","r","e","m">>, <<"\n">>, <<" ","i","p","s","u","m">>),
    Heading(7019, "DIVIDENDS", <<"d","i","v","i","d","e","n","d","s">>, <<"\n","B","u","s","i","n","e","s","s"," ","o","f"," ","p","a","y","i","n","g"," ">>, <<"\n","T","h","e">>),
    Heading(8000, "DIVIDENDS", <<"D","I","V","I","D","E","N","D","S">>, <<"\n">>, <<"\n","T","h","e">>),
    Heading(9000, "RISK_FACTORS", <<"R","i","s","k","\n","F","a","c","t","o","r","s">>, <<"A","n","n","u","a","l"," ","R","e","p","o","r","t"," ">>, <<"\n","4",".","1"," ","O","v","e","r","v","i","e","w">>),
    Heading(9100, "BUSINESS_OVERVIEW", <<"B","u","s","i","n","e","s","s"," ","O","v","e","r","v","i","e","w">>, <<"\n">>, <<"\n","W","e">>),
    Heading(12000, "DIRECTORS_AND_OFFICERS", <<"D","i","r","e","c","t","o","r","s"," ","a","n","d"," ","E","x","e","c","u","t","i","v","e"," ","O","f","f","i","c","e","r","s">>,
            <<"\n">>, <<"\n","T","h","e">>) >>]

TocOnlyText == [len |-> 20000, matches |-> <<
    Heading(1200, "CORPORATE_STRUCTURE", <<"C","O","R","P","O","R","A","T","E"," ","S","T","R","U","C","T","U","R","E">>, <<"\n">>, <<" ","3","\n">>),
    Heading(5500, "RISK_FACTORS", <<"R","I","S","K"," ","F","A","C","T","O","R","S">>, <<"\n">>, <<" ","1","2","\n">>),
    Heading(6100, "DIVIDENDS", <<"d","i","v","i","d","e","n","d","s">>, <<"p","a","y","s"," ","n","o"," ">>, <<" ","o","n"," ","i","t","s"," ","s","h","a","r","e","s">>) >>]

\* The documents of the model read "Lorem ipsum" sentences between the
\* passages the matches describe: words parted by single spaces, a full stop
\* before every passage that starts with whitespace, a new sentence after
\* every passage that ends with whitespace.  Their tags stand next to
\* whitespace of the text, so replacing a tag by a space only lengthens a
\* whitespace run.
FillerTail == <<"i","p","s","u","m",".">>
FillerHead == <<"L","o","r","e","m">>

\* The offsets (0-based) of the whitespace characters of the passage of match m
WhitespaceOffsets(m) ==
    {m.start - Len(m.before) + i - 1 : i \in {j \in 1..Len(m.before) : m.before[j] \in Whitespace}}
    \cup {m.start + i - 1 : i \in {j \in 1..Len(m.group) : m.group[j] \in Whitespace}}
    \cup {m.start + Len(m.group) + i - 1 :
              i \in {j \in 1..Len(m.after) : m.after[j] \in Whitespace}}

\* The characters before offset q that re.sub(r'\s+', ' ', text) takes away:
\* every whitespace character that follows a whitespace character.
Collapsed(text, q) ==
    LET ws == UNION {WhitespaceOffsets(text.matches[k]) : k \in 1..Len(text.matches)}
    IN  Cardinality({p \in ws : p < q /\ (p - 1) \in ws})

\* text = re.sub(r'<[^>]+>', ' ', html); re.sub(r'\s+', ' ', text): the text
\* with every whitespace run made one space, as re.finditer then sees it.
CollapsedMatch(text, m) ==
    [start |-> m.start - Collapsed(text, m.start),
     pat |-> m.pat,
     group |-> CollapseWs(m.group, 1),
     before |-> CollapseWs((IF m.before # <<>> /\ m.before[1] \in Whitespace
                            THEN FillerTail ELSE <<>>) \o m.before, 1),
     after |-> CollapseWs(m.after \o (IF m.after # <<>> /\ m.after[Len(m.after)] \in Whitespace
                                      THEN FillerHead ELSE <<>>), 1)]
CollapsedText(text) ==
    [len |-> text.len - Collapsed(text, text.len),
     matches |-> [k \in 1..Len(text.matches) |-> CollapsedMatch(text, text.matches[k])]]

AifTextCollapsed == CollapsedText(AifText)
TocOnlyTextCollapsed == CollapsedText(TocOnlyText)

\* BeautifulSoup(html, 'html.parser').get_text(): the name of the plain text
\* of the document, and the text of that name.
GetText(html) == html.text

\* The except ImportError branch of aif_text and mda_text: the name of the
\* text with the tags replaced and the whitespace collapsed.
StripTags(html) ==
    CASE html.text = "aif" -> "aif collapsed"
      [] html.text = "nosections" -> "nosections collapsed"
      [] OTHER -> html.text

\* try: from bs4 import BeautifulSoup ... except ImportError: ...
ExtractText(html) == IF "bs4" \in modules THEN GetText(html) ELSE StripTags(html)

TextOf(name) ==
    CASE name = "aif" -> AifText
      [] name = "nosections" -> TocOnlyText
      [] name = "aif collapsed" -> AifTextCollapsed
      [] name = "nosections collapsed" -> TocOnlyTextCollapsed
      [] OTHER -> NoText

\* _aif_result
P_aif_result(c, r) ==
    Cached(c, r, "_aif_result",
        {IF x.kind = "return"
         THEN Done(c, Bump(r, "aif_resolution"), [att |-> x.att, reason |-> x.reason])
         ELSE Fail(c, Bump(r, "aif_resolution"), x.reason)
         : x \in _find_aif_attachment(filing)})

\* aif_attachment
P_aif_attachment(c, r) ==
    Cached(c, r, "aif_attachment",
        {IF o.kind = "raise" THEN o ELSE Done(o.cache, o.runs, o.val.att)
         : o \in P_aif_result(c, r)})

\* The answers of download_text to the full download of an exhibit.
FullDownloads ==
    {Raised, Falsy,
     [kind |-> "text",
      html |-> [pad |-> 0, body |-> <<"C","o","r","p","o","r","a","t","e"," ","S","t","r","u","c","t","u","r","e"," ","R","i","s","k"," ","F","a","c","t","o","r","s">>, text |-> "aif"]],
     [kind |-> "text",
      html |-> [pad |-> 0, body |-> <<"r","e","s","u","l","t","s"," ","o","f"," ","o","p","e","r","a","t","i","o","n","s">>, text |-> "nosections"]]}

\* att = self.<x>_attachment; if att is None: return None;
\* return download_text(att.url), which is not guarded by try/except.  o is
\* the way the read of the attachment ended: an exception raised there leaves
\* through the property reading it.
Download(o, step) ==
    IF o.kind = "raise" THEN {o}
    ELSE IF o.val = None THEN {Done(o.cache, o.runs, None)}
    ELSE {IF resp.kind = "raise" THEN Fail(o.cache, Bump(o.runs, step), "DownloadError")
          ELSE IF resp.kind = "falsy" THEN Done(o.cache, Bump(o.runs, step), None)
          ELSE Done(o.cache, Bump(o.runs, step), Some(resp.html))
          : resp \in FullDownloads}

\* aif_html
P_aif_html(c, r) ==
    Cached(c, r, "aif_html",
        UNION {Download(o, "aif_download") : o \in P_aif_attachment(c, r)})

\* aif_text
P_aif_text(c, r) ==
    Cached(c, r, "aif_text",
        {IF o.kind = "raise" THEN o
         ELSE IF o.val = None THEN Done(o.cache, o.runs, None)
         ELSE Done(o.cache, Bump(o.runs, "aif_text_extraction"), Some(ExtractText(o.val[1])))
         : o \in P_aif_html(c, r)})

\* business
P_business(c, r) ==
    Cached(c, r, "business",
        {IF o.kind = "raise" THEN o
         ELSE IF o.val = None THEN Done(o.cache, o.runs, None)
         ELSE Done(o.cache, o.runs, _extract_business_section(TextOf(o.val[1])))
         : o \in P_aif_text(c, r)})

\* [(pos, name.title()) for pos, name in positions]
TitleCased(positions) ==
    [i \in 1..Len(positions) |-> [pos |-> positions[i].pos, name |-> Title(positions[i].name)]]

\* _section_positions without the test for a missing text.
SectionPositionsOfMissingText(c, r) ==
    Cached(c, r, "_section_positions",
        {IF o.kind = "raise" THEN o
         ELSE IF o.val = None
         THEN Fail(o.cache, Bump(o.runs, "section_detection"), "TypeError")
         ELSE Done(o.cache, Bump(o.runs, "section_detection"),
                   TitleCased(_find_section_positions(TextOf(o.val[1]))))
         : o \in P_aif_text(c, r)})

\* _section_positions
P_section_positions(c, r) ==
    Cached(c, r, "_section_positions",
        {IF o.kind = "raise" THEN o
         ELSE IF o.val = None THEN Done(o.cache, o.runs, <<>>)
         ELSE Done(o.cache, Bump(o.runs, "section_detection"),
                   TitleCased(_find_section_positions(TextOf(o.val[1]))))
         : o \in P_aif_text(c, r)})

\* items
P_items(c, r) ==
    Cached(c, r, "items",
        {IF o.kind = "raise" THEN o
         ELSE Done(o.cache, o.runs, [i \in 1..Len(o.val) |-> o.val[i].name])
         : o \in P_section_positions(c, r)})

\* A key is its Python type and, for a string, its characters (for any other
\* type, the characters of its repr).
Str(s) == [type |-> "str", val |-> s]

\* Lookup with the containment scan made before the exact-match scan.
LookupContainmentFirst(text, positions, key) ==
    LET key_lower == Strip(Lower(key))
        containing == {i \in 1..Len(positions) : Contains(key_lower, Lower(positions[i].name))}
        full_text == TextOf(text[1])
    IN  IF text = None \/ full_text.len = 0 \/ positions = <<>> THEN None
        ELSE IF key_lower = <<>> THEN None
        ELSE IF containing # {}
        THEN Some(_extract_section_text(full_text, positions,
                                        CHOOSE i \in containing : \A j \in containing : i <= j))
        ELSE None

\* Lookup with the exact-match scan comparing the name as listed, not lower-cased.
LookupExactCaseSensitive(text, positions, key) ==
    LET key_lower == Strip(Lower(key))
        exact == {i \in 1..Len(positions) : positions[i].name = key_lower}
        containing == {i \in 1..Len(positions) : Contains(key_lower, Lower(positions[i].name))}
        full_text == TextOf(text[1])
    IN  IF text = None \/ full_text.len = 0 \/ positions = <<>> THEN None
        ELSE IF key_lower = <<>> THEN None
        ELSE IF exact # {}
        THEN Some(_extract_section_text(full_text, positions,
                                        CHOOSE i \in exact : \A j \in exact : i <= j))
        ELSE IF containing # {}
        THEN Some(_extract_section_text(full_text, positions,
                                        CHOOSE i \in containing : \A j \in containing : i <= j))
        ELSE None

\* The body of __getitem__ after the type check, on the text and positions.
Lookup(text, positions, key) ==
    LET key_lower == Strip(Lower(key))
        exact == {i \in 1..Len(positions) : Lower(positions[i].name) = key_lower}
        containing == {i \in 1..Len(positions) : Contains(key_lower, Lower(positions[i].name))}
        full_text == TextOf(text[1])
    IN  IF text = None \/ full_text.len = 0 \/ positions = <<>> THEN None
        ELSE IF key_lower = <<>> THEN None
        ELSE IF exact # {}
        THEN Some(_extract_section_text(full_text, positions,
                                        CHOOSE i \in exact : \A j \in exact : i <= j))
        ELSE IF containing # {}
        THEN Some(_extract_section_text(full_text, positions,
                                        CHOOSE i \in containing : \A j \in containing : i <= j))
        ELSE None

\* text = self.aif_text; positions = self._section_positions; then the lookup
ReadThenLookup(c, r, key) ==
    UNION {IF t.kind = "raise" THEN {t}
           ELSE {IF p.kind = "raise" THEN p
                 ELSE Done(p.cache, p.runs, Lookup(t.val, p.val, key.val))
                 : p \in P_section_positions(t.cache, t.runs)}
           : t \in P_aif_text(c, r)}

\* __getitem__ with the type check made after the text and positions are read.
GetItemChecksTypeLate(c, r, key) ==
    IF key.type # "str"
    THEN {Fail(o.cache, o.runs, "TypeError") : o \in ReadThenLookup(c, r, Str(<<>>))}
    ELSE ReadThenLookup(c, r, key)

\* __getitem__
P_getitem(c, r, key) ==
    IF key.type # "str" THEN {Fail(c, r, "TypeError")}
    ELSE ReadThenLookup(c, r, key)

\* _mda_result
P_mda_result(c, r) ==
    Cached(c, r, "_mda_result",
        UNION {IF o.kind = "raise" THEN {o}
               ELSE {IF x.kind = "return"
                     THEN Done(o.cache, Bump(o.runs, "mda_resolution"),
                               [att |-> x.att, reason |-> x.reason])
                     ELSE Fail(o.cache, Bump(o.runs, "mda_resolution"), x.reason)
                     : x \in _find_mda_attachment(filing, o.val)}
               : o \in P_aif_attachment(c, r)})

\* mda_attachment
P_mda_attachment(c, r) ==
    Cached(c, r, "mda_attachment",
        {IF o.kind = "raise" THEN o ELSE Done(o.cache, o.runs, o.val.att)
         : o \in P_mda_result(c, r)})

\* mda_html
P_mda_html(c, r) ==
    Cached(c, r, "mda_html",
        UNION {Download(o, "mda_download") : o \in P_mda_attachment(c, r)})

\* mda_text
P_mda_text(c, r) ==
    Cached(c, r, "mda_text",
        {IF o.kind = "raise" THEN o
         ELSE IF o.val = None THEN Done(o.cache, o.runs, None)
         ELSE Done(o.cache, o.runs, Some(ExtractText(o.val[1])))
         : o \in P_mda_html(c, r)})

\* HTMLParser(ParserConfig(form='40-F')).parse(html): the Document of the html.
\* edgar.documents is not among the sources; the parser is taken to return.
Parse(html) == [document |-> html]

\* aif_document
P_aif_document(c, r) ==
    Cached(c, r, "aif_document",
        {IF o.kind = "raise" THEN o
         ELSE IF o.val = None THEN Done(o.cache, o.runs, None)
         ELSE IF "edgar.documents" \in modules
         THEN Done(o.cache, o.runs, Some(Parse(o.val[1])))
         ELSE Fail(o.cache, o.runs, "ModuleNotFoundError")
         : o \in P_aif_html(c, r)})

\* self._filing.html(): the HTML of the main document, None when it has none
MainHtmlAnswers ==
    {None, Some([pad |-> 0, body |-> <<"A","n","n","u","a","l"," ","R","e","p","o","r","t">>, text |-> "main"])}

\* document
P_document(c, r) ==
    Cached(c, r, "document",
        UNION {IF o.kind = "raise" THEN {o}
               ELSE IF o.val # None THEN {Done(o.cache, o.runs, o.val)}
               ELSE {IF html = None THEN Done(o.cache, o.runs, None)
                     ELSE IF "edgar.documents" \in modules
                     THEN Done(o.cache, o.runs, Some(Parse(html[1])))
                     ELSE Fail(o.cache, o.runs, "ModuleNotFoundError")
                     : html \in MainHtmlAnswers}
               : o \in P_aif_document(c, r)})

\* "found" if att else "not found"
FoundOrNot(att) == IF att # None THEN "found" ELSE "not found"

\* The section previews of to_context('full'), read when items and the text
\* are cached: for name in self.items: text = self[name]; if text: ...
Previews(c, r, names) ==
    LET text(k) == (CHOOSE o \in P_getitem(c, r, [type |-> "str", val |-> names[k]]) : TRUE).val
    IN  SelectSeq([k \in 1..Len(names) |-> [name |-> names[k], text |-> text(k)]],
                  LAMBDA e : e.text # None)

\* The lines of to_context that depend on the instance: the AIF and MD&A
\* status, the detected sections, the previews.
Context(aif, mda, sections, previews) ==
    [aif |-> FoundOrNot(aif), mda |-> FoundOrNot(mda),
     sections |-> sections, previews |-> previews]

\* to_context(detail)
P_to_context(c, r, detail) ==
    UNION {IF a.kind = "raise" THEN {a}
           ELSE UNION {IF m.kind = "raise" THEN {m}
                       ELSE IF detail \notin {<<"s","t","a","n","d","a","r","d">>, <<"f","u","l","l">>}
                       THEN {Done(m.cache, m.runs, Context(a.val, m.val, None, <<>>))}
                       ELSE {IF i.kind = "raise" THEN i
                             ELSE Done(i.cache, i.runs,
                                       Context(a.val, m.val, Some(i.val),
                                               IF detail = <<"f","u","l","l">>
                                               THEN Previews(i.cache, i.runs, i.val)
                                               ELSE <<>>))
                             : i \in P_items(m.cache, m.runs)}
                       : m \in P_mda_attachment(a.cache, a.runs)}
           : a \in P_aif_attachment(c, r)}

\* expected of get_structure
ExpectedSections == <<
    <<"C","o","r","p","o","r","a","t","e"," ","S","t","r","u","c","t","u","r","e">>, <<"G","e","n","e","r","a","l"," ","D","e","v","e","l","o","p","m","e","n","t"," ","O","f"," ","T","h","e"," ","B","u","s","i","n","e","s","s">>,
    <<"D","e","s","c","r","i","p","t","i","o","n"," ","O","f"," ","T","h","e"," ","B","u","s","i","n","e","s","s">>, <<"R","i","s","k"," ","F","a","c","t","o","r","s">>, <<"D","i","v","i","d","e","n","d","s">>,
    <<"D","e","s","c","r","i","p","t","i","o","n"," ","O","f"," ","C","a","p","i","t","a","l"," ","S","t","r","u","c","t","u","r","e">>, <<"M","a","r","k","e","t"," ","F","o","r"," ","S","e","c","u","r","i","t","i","e","s">>,
    <<"D","i","r","e","c","t","o","r","s"," ","A","n","d"," ","O","f","f","i","c","e","r","s">>, <<"L","e","g","a","l"," ","P","r","o","c","e","e","d","i","n","g","s">> >>

\* a == b or a in b or b in a, of _matches_detected and _matches_expected
EitherContains(a, b) == a = b \/ Contains(a, b) \/ Contains(b, a)

\* The tree of get_structure: each expected section and whether a detected
\* section matches it, then the detected sections that match none.
Structure(names) ==
    [expected |-> [k \in 1..Len(ExpectedSections) |->
                     \E d \in 1..Len(names) :
                         EitherContains(Lower(ExpectedSections[k]), Lower(names[d]))],
     others |-> SelectSeq(names, LAMBDA n :
                     \A k \in 1..Len(ExpectedSections) :
                         ~EitherContains(Lower(n), Lower(ExpectedSections[k])))]

\* get_structure()
P_get_structure(c, r) ==
    {IF i.kind = "raise" THEN i ELSE Done(i.cache, i.runs, Structure(i.val))
     : i \in P_items(c, r)}

\* __rich__(): the reasons of the two results and the tree, in the order read
P_rich(c, r) ==
    UNION {IF a.kind = "raise" THEN {a}
           ELSE UNION {IF m.kind = "raise" THEN {m}
                       ELSE {IF t.kind = "raise" THEN t
                             ELSE Done(t.cache, t.runs,
                                       [aif_info |-> a.val.reason, mda_info |-> m.val.reason,
                                        structure |-> t.val])
                             : t \in P_get_structure(m.cache, m.runs)}
                       : m \in P_mda_result(a.cache, a.runs)}
           : a \in P_aif_result(c, r)}

(***************************************************************************)
(* SpecClassify: the two classifiers as functions of the attachment list   *)
(***************************************************************************)
InitClassify ==
    /\ filing \in Filings
    /\ doc = NoText
    /\ inst = "none"
    /\ cache = EmptyCache
    /\ runs = NoRuns
    /\ modules = AllModules
    /\ last = NoCall

CallFindAif ==
    /\ last.op = "none"
    /\ \E r \in _find_aif_attachment(filing) :
           last' = [op |-> "_find_aif_attachment", arg |-> None, res |-> r]
    /\ UNCHANGED <<filing, doc, inst, cache, runs, modules>>

CallFindMda ==
    /\ last.op = "none"
    /\ \E aif \in {None} \cup {Some(filing.atts[i]) : i \in 1..Len(filing.atts)} :
         \E r \in _find_mda_attachment(filing, aif) :
           last' = [op |-> "_find_mda_attachment", arg |-> aif, res |-> r]
    /\ UNCHANGED <<filing, doc, inst, cache, runs, modules>>

NextClassify == CallFindAif \/ CallFindMda

SpecClassify == InitClassify /\ [][NextClassify]_vars

(***************************************************************************)
(* SpecSections: the section detector as a function of the text            *)
(***************************************************************************)
MaxMatches == 3

\* What a match of each pattern used here looks like in the text (m.group()).
GroupOf(pat) ==
    CASE pat = "CORPORATE_STRUCTURE" -> <<"C","o","r","p","o","r","a","t","e"," ","S","t","r","u","c","t","u","r","e">>
      [] pat = "DIVIDENDS" -> <<"D","I","V","I","D","E","N","D","S">>
      [] pat = "RISK_FACTORS" -> <<"R","i","s","k"," "," ","F","a","c","t","o","r","s">>
      [] OTHER -> <<"B","U","S","I","N","E","S","S"," ","O","V","E","R","V","I","E","W">>

\* The surroundings of a match: a real heading, a table-of-contents line, a
\* textual reference.
Surroundings == {
    [before |-> <<"p","e","r","i","o","d",".","\n","\n">>,  after |-> <<"\n","T","h","e"," ","C","o","m","p","a","n","y">>],
    [before |-> <<"\n">>,           after |-> <<" ","1","2","\n","I","t","e","m">>],
    [before |-> <<"p","l","e","a","s","e"," ","s","e","e"," ">>,  after |-> <<" ","b","e","l","o","w",".">>] }

MatchStarts == {4000, 5100, 5250, 5400, 10500}
TextLengths == {20000, 180000}
MatchPatterns == {"CORPORATE_STRUCTURE", "DIVIDENDS", "RISK_FACTORS"}

MatchesAt(st) ==
    {[start |-> st, pat |-> p, group |-> GroupOf(p), before |-> c.before, after |-> c.after] :
        p \in MatchPatterns, c \in Surroundings}

\* Match lists in text order: strictly increasing offsets, at most n matches.
RECURSIVE MatchLists(_)
MatchLists(n) ==
    IF n = 0 THEN {<<>>}
    ELSE LET shorter == MatchLists(n - 1)
         IN  shorter \cup
             UNION {{Append(l, m) : m \in UNION {MatchesAt(st) :
                                        st \in {x \in MatchStarts :
                                                  l = <<>> \/ x > l[Len(l)].start}}}
                    : l \in {x \in shorter : Len(x) = n - 1}}

Texts == {[len |-> n, matches |-> l] : n \in TextLengths, l \in MatchLists(MaxMatches)}

InitSections ==
    /\ doc \in Texts
    /\ filing = [form |-> "40-F", atts |-> <<>>]
    /\ inst = "none"
    /\ cache = EmptyCache
    /\ runs = NoRuns
    /\ modules = AllModules
    /\ last = NoCall

Val(v) == [kind |-> "return", val |-> v]

DetectSections ==
    /\ last.op = "none"
    /\ last' = [op |-> "_find_section_positions", arg |-> None,
                res |-> Val(_find_section_positions(doc))]
    /\ UNCHANGED <<filing, doc, inst, cache, runs, modules>>

ExtractSection ==
    /\ last.op = "_find_section_positions"
    /\ \E idx \in 1..Len(last.res.val) :
          last' = [op |-> "_extract_section_text",
                   arg |-> [positions |-> last.res.val, idx |-> idx],
                   res |-> Val(_extract_section_text(doc, last.res.val, idx))]
    /\ UNCHANGED <<filing, doc, inst, cache, runs, modules>>

NextSections == DetectSections \/ ExtractSection

SpecSections == InitSections /\ [][NextSections]_vars

(***************************************************************************)
(* SpecFacade: one FortyF instance and the calls made on it                *)
(***************************************************************************)
\* The filings an instance is built from, each with the modules its
\* environment offers.
Setup(form, atts, mods) == [filing |-> [form |-> form, atts |-> atts], modules |-> mods]
FacadeSetups == {
    Setup("40-F", << Att(<<"E","X","-","1">>, <<>>, <<"/","a","/","e","x","1",".","h","t","m">>, Some(250000)) >>, AllModules),
    Setup("40-F", << Att(<<"E","X","-","9","9",".","5">>, <<>>, <<"/","a","/","e","x","9","9","5",".","h","t","m">>, Some(100001)),
                     Att(<<"E","X","-","9","9",".","7">>, <<"M","D","&","A">>, <<"/","a","/","e","x","9","9","7",".","h","t","m">>, Some(50000)) >>, {}),
    Setup("40-F", << Att(<<"E","X","-","9","9",".","7">>, <<"M","D","&","A">>, <<"/","a","/","e","x","9","9","7",".","h","t","m">>, Some(50000)) >>, AllModules),
    Setup("40-F/A", <<>>, {"bs4"}),
    Setup("10-K", << Att(<<"E","X","-","1">>, <<>>, <<"/","a","/","e","x","1",".","h","t","m">>, Some(250000)) >>, AllModules) }

Keys == { Str(<<"R","I","S","K"," ","F","A","C","T","O","R","S"," ">>), Str(<<"d","i","v","i","d","e","n","d","s">>), Str(<<"b","u","s","i","n","e","s","s">>),
          Str(<<"D","i","v","i","d","e","n","d","s"," ","P","o","l","i","c","y">>), Str(<<" "," ">>),
          [type |-> "int", val |-> <<"4","2">>] }

\* The named section properties and the key each one looks up.
NamedKeys ==
    [risk_factors |-> <<"R","i","s","k"," ","F","a","c","t","o","r","s">>,
     corporate_structure |-> <<"C","o","r","p","o","r","a","t","e"," ","S","t","r","u","c","t","u","r","e">>,
     dividends |-> <<"D","i","v","i","d","e","n","d","s">>,
     capital_structure |-> <<"D","e","s","c","r","i","p","t","i","o","n"," ","O","f"," ","C","a","p","i","t","a","l"," ","S","t","r","u","c","t","u","r","e">>,
     directors_and_officers |-> <<"D","i","r","e","c","t","o","r","s"," ","A","n","d"," ","O","f","f","i","c","e","r","s">>,
     legal_proceedings |-> <<"L","e","g","a","l"," ","P","r","o","c","e","e","d","i","n","g","s">>]

InitFacade ==
    /\ \E s \in FacadeSetups : filing = s.filing /\ modules = s.modules
    /\ doc = NoText
    /\ inst = "none"
    /\ cache = EmptyCache
    /\ runs = [s \in Steps |-> 0]
    /\ last = NoCall

\* FortyF(filing)
__init__ ==
    /\ inst = "none"
    /\ last.op = "none"
    /\ IF filing.form \in {"40-F", "40-F/A"}
       THEN /\ inst' = "ready"
            /\ last' = [op |-> "__init__", arg |-> None, res |-> Val(None)]
       ELSE /\ inst' = "none"
            /\ last' = [op |-> "__init__", arg |-> None,
                        res |-> [kind |-> "raise", val |-> "AssertionError"]]
    /\ UNCHANGED <<filing, doc, cache, runs, modules>>

\* The executions of a step that ended in an exception: all of them but the
\* one whose value is cached.
Failures(c, r) ==
    LET got(p) == IF p \in DOMAIN c THEN 1 ELSE 0
        fetched(html, att) == IF html \in DOMAIN c /\ c[att] # None THEN 1 ELSE 0
    IN  (r["aif_resolution"] - got("_aif_result"))
        + (r["aif_download"] - fetched("aif_html", "aif_attachment"))
        + (r["mda_resolution"] - got("_mda_result"))
        + (r["mda_download"] - fetched("mda_html", "mda_attachment"))

\* One call on the instance, ending in any of the ways in outs.  At most
\* MaxFailures executions fail in a behaviour.
Access(op, arg, outs) ==
    /\ inst = "ready"
    /\ \E o \in outs :
          /\ Failures(o.cache, o.runs) <= MaxFailures
          /\ cache' = o.cache
          /\ runs' = o.runs
          /\ last' = [op |-> op, arg |-> arg, res |-> [kind |-> o.kind, val |-> o.val]]
    /\ UNCHANGED <<filing, doc, inst, modules>>

aif_attachment == Access("aif_attachment", None, P_aif_attachment(cache, runs))
aif_html == Access("aif_html", None, P_aif_html(cache, runs))
aif_text == Access("aif_text", None, P_aif_text(cache, runs))
business == Access("business", None, P_business(cache, runs))
items == Access("items", None, P_items(cache, runs))
__getitem__ == \E key \in Keys : Access("__getitem__", key, P_getitem(cache, runs, key))
\* for name in forty_f.items: forty_f[name]
ListedKeys(c) ==
    IF "items" \in DOMAIN c THEN {Str(c["items"][i]) : i \in 1..Len(c["items"])} ELSE {}
GetListedItem ==
    \E key \in ListedKeys(cache) : Access("__getitem__", key, P_getitem(cache, runs, key))
NamedSection ==
    \E a \in DOMAIN NamedKeys :
        Access(a, Str(NamedKeys[a]), P_getitem(cache, runs, Str(NamedKeys[a])))
mda_attachment == Access("mda_attachment", None, P_mda_attachment(cache, runs))
mda_html == Access("mda_html", None, P_mda_html(cache, runs))
mda_text == Access("mda_text", None, P_mda_text(cache, runs))
aif_document == Access("aif_document", None, P_aif_document(cache, runs))
document == Access("document", None, P_document(cache, runs))
ContextDetails == {<<"m","i","n","i","m","a","l">>, <<"s","t","a","n","d","a","r","d">>, <<"f","u","l","l">>}
to_context ==
    \E detail \in ContextDetails :
        Access("to_context", Str(detail), P_to_context(cache, runs, detail))
get_structure == Access("get_structure", None, P_get_structure(cache, runs))
__rich__ == Access("__rich__", None, P_rich(cache, runs))
\* repr_rich(self.__rich__())
__repr__ == Access("__repr__", None, P_rich(cache, runs))

NextFacade ==
    \/ __init__
    \/ aif_attachment
    \/ aif_html
    \/ aif_text
    \/ business
    \/ items
    \/ __getitem__
    \/ GetListedItem
    \/ NamedSection
    \/ mda_attachment
    \/ mda_html
    \/ mda_text
    \/ aif_document
    \/ document
    \/ to_context
    \/ get_structure
    \/ __rich__
    \/ __repr__

SpecFacade == InitFacade /\ [][NextFacade]_vars

(***************************************************************************)
(* Exhibit 21 subsidiaries parser,                                         *)
(* src/edgar/company_reports/subsidiaries.py: cell text cleaning           *)
(***************************************************************************)
SetMax(S) == CHOOSE x \in S : \A y \in S : y <= x

\* s.replace(a, b) for single characters
ReplaceChar(s, a, b) == [i \in 1..Len(s) |-> IF s[i] = a THEN b ELSE s[i]]

\* s.rstrip(chars)
RStripChars(s, chars) ==
    LET keep == {i \in 1..Len(s) : s[i] \notin chars}
    IN  IF keep = {} THEN <<>> ELSE SubSeq(s, 1, SetMax(keep))

\* _clean_text(text)
_clean_text(text) == Strip(ReplaceChar(CollapseWs(Strip(text), 1), NBSP, " "))

\* s[e:] holds whitespace only (\s*$ matches at e)
OnlySpaceFrom(s, e) == e + Run(s, e, Whitespace) > Len(s)

\* One footnote marker \s*[\(\[]\d{1,2}[\)\]] starting at s[i]: the index
\* after it, or 0 when there is none.
MarkerEnd(s, i) ==
    LET j == i + Run(s, i, Whitespace)
        d == IF j <= Len(s) /\ s[j] \in {"(", "["} THEN Run(s, j + 1, Digits) ELSE 0
    IN  IF d \in {1, 2} /\ j + d + 1 <= Len(s) /\ s[j + d + 1] \in {")", "]"}
        THEN j + d + 2 ELSE 0

\* (\s*[\(\[]\d{1,2}[\)\]])+\s*$ matches s[i:]
RECURSIVE MarkerRunToEnd(_, _)
MarkerRunToEnd(s, i) ==
    LET e == MarkerEnd(s, i)
    IN  e # 0 /\ (OnlySpaceFrom(s, e) \/ MarkerRunToEnd(s, e))

\* \s*\*+\s*$ matches s[i:]
StarRunToEnd(s, i) ==
    LET j == i + Run(s, i, Whitespace)
        k == Run(s, j, {"*"})
    IN  k >= 1 /\ OnlySpaceFrom(s, j + k)

\* _FOOTNOTE_PATTERN.sub('', name): the leftmost match runs to the end of the
\* string, so the substitution cuts the name there.
_FOOTNOTE_PATTERN_sub(name) ==
    LET starts == {i \in 1..Len(name) : MarkerRunToEnd(name, i) \/ StarRunToEnd(name, i)}
    IN  IF starts = {} THEN name ELSE SubSeq(name, 1, SetMin(starts) - 1)

\* Mutant of _clean_name: the footnote pattern without its end anchor, every
\* bracketed number of one or two digits is removed wherever it stands.
RECURSIVE DropMarkers(_, _)
DropMarkers(s, i) ==
    IF i > Len(s) THEN <<>>
    ELSE IF MarkerEnd(s, i) # 0 THEN DropMarkers(s, MarkerEnd(s, i))
    ELSE <<s[i]>> \o DropMarkers(s, i + 1)
CleanNameUnanchored(name) == Strip(RStripChars(DropMarkers(name, 1), {"*", " "}))

\* _clean_name(name)
_clean_name(name) == Strip(RStripChars(_FOOTNOTE_PATTERN_sub(name), {"*", " "}))

(***************************************************************************)
(* float(text) on decimal literals.  A float is written                    *)
(* [kind, neg, num, exp]: the number (-1)^neg * num * 10^exp with num not  *)
(* divisible by ten, or an infinity or a NaN.  A literal of at most        *)
(* fifteen significant digits in the normal range of a double is          *)
(* identified by its decimal (repr gives it back), so the value is kept    *)
(* as the decimal; a literal below half of the smallest subnormal becomes  *)
(* a zero that keeps the sign, one from 2^1024 - 2^970 on an infinity.     *)
(* Literals between the smallest subnormal and the smallest normal double  *)
(* round to a multiple of 2^-1074 and are kept as their decimal too; the   *)
(* inputs of the model have none.  The 32-bit integers of the checker      *)
(* limit a mantissa to 2147483647.                                         *)
(***************************************************************************)
RECURSIVE ToNat(_)
ToNat(ds) ==
    IF ds = <<>> THEN 0
    ELSE 10 * ToNat(SubSeq(ds, 1, Len(ds) - 1))
         + (CHOOSE v \in 0..9 : <<"0","1","2","3","4","5","6","7","8","9">>[v + 1] = ds[Len(ds)])

RECURSIVE Pow10(_)
Pow10(n) == IF n = 0 THEN 1 ELSE 10 * Pow10(n - 1)

\* A digit part of a float literal: digits, single underscores between them.
DigitPart(d) ==
    /\ \A i \in 1..Len(d) : d[i] \in Digits \/ d[i] = "_"
    /\ \A i \in 1..Len(d) : d[i] = "_" => (i > 1 /\ i < Len(d) /\ d[i - 1] # "_" /\ d[i + 1] # "_")
NoUnderscore(d) == SelectSeq(d, LAMBDA c : c # "_")

RECURSIVE Normal(_, _, _)
Normal(neg, num, exp) ==
    IF num = 0 THEN [kind |-> "num", neg |-> neg, num |-> 0, exp |-> 0]
    ELSE IF num % 10 = 0 THEN Normal(neg, num \div 10, exp + 1)
    ELSE [kind |-> "num", neg |-> neg, num |-> num, exp |-> exp]

RECURSIVE NumDigits(_)
NumDigits(n) == IF n < 10 THEN 1 ELSE 1 + NumDigits(n \div 10)

\* The first nine significant digits of n, zeros appended to a shorter n.
LeadingNine(n) ==
    IF NumDigits(n) <= 9 THEN n * Pow10(9 - NumDigits(n)) ELSE n \div Pow10(NumDigits(n) - 9)

\* 2^-1075 = 2.47032822920...e-324: a decimal below it rounds to zero.
HalfMinSubnormalLead == 247032822
HalfMinSubnormalExp == 0 - 323
\* 2^1024 - 2^970 = 1.79769313486...e308: a decimal from it on rounds to infinity.
OverflowLead == 179769313
OverflowTenth == 4
OverflowExp == 309

\* The double nearest to (-1)^neg * num * 10^exp, 10^(e-1) <= num * 10^exp < 10^e
Nearest(v) ==
    LET e == NumDigits(v.num) + v.exp
        lead == LeadingNine(v.num)
        tenth == IF NumDigits(v.num) >= 10 THEN (v.num \div Pow10(NumDigits(v.num) - 10)) % 10 ELSE 0
    IN  IF v.num = 0 THEN v
        ELSE IF e < HalfMinSubnormalExp \/ (e = HalfMinSubnormalExp /\ lead <= HalfMinSubnormalLead)
        THEN [kind |-> "num", neg |-> v.neg, num |-> 0, exp |-> 0]
        ELSE IF \/ e > OverflowExp
                \/ e = OverflowExp /\ lead > OverflowLead
                \/ e = OverflowExp /\ lead = OverflowLead /\ tenth > OverflowTenth
        THEN [kind |-> "inf", neg |-> v.neg, num |-> 0, exp |-> 0]
        ELSE v

\* The unsigned part of a literal, lower-cased: mantissa [. fraction] [e exponent]
FloatBody(neg, b) ==
    LET es == {i \in 1..Len(b) : b[i] = "e"}
        mant == IF es = {} THEN b ELSE SubSeq(b, 1, SetMin(es) - 1)
        expo == IF es = {} THEN <<>> ELSE SubSeq(b, SetMin(es) + 1, Len(b))
        esign == expo # <<>> /\ expo[1] \in {"+", "-"}
        edig == IF esign THEN SubSeq(expo, 2, Len(expo)) ELSE expo
        dots == {i \in 1..Len(mant) : mant[i] = "."}
        ip == IF dots = {} THEN mant ELSE SubSeq(mant, 1, SetMin(dots) - 1)
        fp == IF dots = {} THEN <<>> ELSE SubSeq(mant, SetMin(dots) + 1, Len(mant))
        ok == /\ Cardinality(dots) <= 1
              /\ DigitPart(ip) /\ DigitPart(fp) /\ ip \o fp # <<>>
              /\ es # {} => (edig # <<>> /\ DigitPart(edig))
    IN  IF ~ok THEN None
        ELSE Some(Nearest(Normal(neg, ToNat(NoUnderscore(ip \o fp)),
                                 (IF esign /\ expo[1] = "-" THEN 0 - ToNat(NoUnderscore(edig))
                                  ELSE ToNat(NoUnderscore(edig)))
                                 - Len(NoUnderscore(fp)))))

\* float(text): None stands for ValueError
Float(text) ==
    LET t == Strip(text)
        signed == t # <<>> /\ t[1] \in {"+", "-"}
        neg == signed /\ t[1] = "-"
        b == Lower(IF signed THEN SubSeq(t, 2, Len(t)) ELSE t)
    IN  IF b \in {<<"i","n","f">>, <<"i","n","f","i","n","i","t","y">>} THEN Some([kind |-> "inf", neg |-> neg, num |-> 0, exp |-> 0])
        ELSE IF b = <<"n","a","n">> THEN Some([kind |-> "nan", neg |-> neg, num |-> 0, exp |-> 0])
        ELSE FloatBody(neg, b)

\* 0 <= val <= 100.  Both zeros compare equal to 0.  A positive value has
\* 10^(e-1) <= val < 10^e with e the digits of num plus exp: it is below 100
\* for e <= 2, and for e = 3 it is at most 100 only when it is 100 itself.
InPercentRange(val) ==
    /\ val.kind = "num"
    /\ \/ val.num = 0
       \/ /\ ~val.neg
          /\ \/ NumDigits(val.num) + val.exp <= 2
             \/ val.num = 1 /\ val.exp = 2

\* text.strip().rstrip('%').strip()
PercentText(text) == Strip(RStripChars(Strip(text), {"%"}))

\* Mutant of _parse_ownership: the value is tested for truth, so 0 is lost.
ParseOwnershipTruthy(text) ==
    LET val == Float(PercentText(text))
    IN  IF val # None /\ InPercentRange(val[1]) /\ val[1].num # 0 THEN val ELSE None

\* _parse_ownership(text)
_parse_ownership(text) ==
    LET val == Float(PercentText(text))
    IN  IF val # None /\ InPercentRange(val[1]) THEN val ELSE None

(***************************************************************************)
(* Row classification                                                      *)
(***************************************************************************)
\* The words of a phrase, one or more whitespace characters between them
\* (w1\s+w2\s+...), match s from s[i] on; k is the word to match next.
RECURSIVE PhraseAt(_, _, _, _)
PhraseAt(s, i, words, k) ==
    LET w == words[k]
        e == i + Len(w)
    IN  /\ e - 1 <= Len(s)
        /\ \A j \in 1..Len(w) : s[i + j - 1] = w[j]
        /\ \/ k = Len(words)
           \/ /\ Run(s, e, Whitespace) >= 1
              /\ PhraseAt(s, e + Run(s, e, Whitespace), words, k + 1)

\* re.search of the phrase in s
HasPhrase(s, words) == \E i \in 1..Len(s) : s[i] = words[1][1] /\ PhraseAt(s, i, words, 1)

\* The unanchored alternatives of _STRONG_HEADER_PATTERNS, optional groups
\* written out.
StrongPhrases == {
    <<<<"n","a","m","e">>, <<"o","f">>, <<"s","u","b","s","i","d","i","a","r","y">>>>, <<<<"n","a","m","e">>, <<"o","f">>, <<"s","u","b","s","i","d","i","a","r","i","e","s">>>>,
    <<<<"n","a","m","e">>, <<"o","f">>, <<"c","o","m","p","a","n","y">>>>, <<<<"n","a","m","e">>, <<"o","f">>, <<"e","n","t","i","t","y">>>>,
    <<<<"n","a","m","e">>, <<"o","f">>, <<"c","o","m","p","a","n","i","e","s">>>>,
    <<<<"c","o","m","p","a","n","y">>, <<"n","a","m","e">>>>, <<<<"e","n","t","i","t","y">>, <<"n","a","m","e">>>>,
    <<<<"p","e","r","c","e","n","t">>, <<"o","w","n">>>>, <<<<"p","e","r","c","e","n","t","a","g","e">>, <<"o","w","n">>>>,
    <<<<"p","e","r","c","e","n","t">>, <<"o","f">>, <<"o","w","n">>>>, <<<<"p","e","r","c","e","n","t","a","g","e">>, <<"o","f">>, <<"o","w","n">>>>,
    <<<<"o","r","g","a","n","i","z","e","d">>, <<"u","n","d","e","r">>, <<"t","h","e">>, <<"l","a","w","s">>>>,
    <<<<"s","t","a","t","e">>, <<"o","r">>, <<"j","u","r","i","s","d","i","c","t","i","o","n">>>>, <<<<"s","t","a","t","e">>, <<"o","r">>, <<"o","t","h","e","r">>, <<"j","u","r","i","s","d","i","c","t","i","o","n">>>> }

\* _STRONG_HEADER_PATTERNS.search(text), re.IGNORECASE, text stripped
_STRONG_HEADER_PATTERNS_search(text) ==
    \/ Lower(text) \in {<<"s","u","b","s","i","d","i","a","r","y">>, <<"s","u","b","s","i","d","i","a","r","i","e","s">>}
    \/ \E p \in StrongPhrases : HasPhrase(Lower(text), p)

_HEADER_KEYWORDS == {<<"j","u","r","i","s","d","i","c","t","i","o","n">>, <<"o","w","n","e","r","s","h","i","p">>, <<"s","u","b","s","i","d","i","a","r","y">>, <<"s","u","b","s","i","d","i","a","r","i","e","s">>,
                     <<"i","n","c","o","r","p","o","r","a","t","i","o","n">>, <<"o","r","g","a","n","i","z","a","t","i","o","n">>, <<"o","r","g","a","n","i","z","e","d">>}
_JURISDICTION_HEADER_PHRASES == {<<"j","u","r","i","s","d","i","c","t","i","o","n">>, <<"s","t","a","t","e"," ","o","r">>, <<"o","r","g","a","n","i","z","e","d"," ","u","n","d","e","r">>,
                                 <<"p","l","a","c","e"," ","o","f">>, <<"c","o","u","n","t","r","y"," ","o","f">>}

\* any(w in c.lower() for w in words)
AnyWordIn(words, c) == \E w \in words : Contains(w, Lower(c))

\* Mutant of _is_header_row: a single cell with a header keyword is enough.
IsHeaderRowAnyKeyword(cells) ==
    \/ \E i \in 1..Len(cells) :
          Strip(cells[i]) # <<>> /\ _STRONG_HEADER_PATTERNS_search(Strip(cells[i]))
    \/ \E i \in 1..Len(cells) : AnyWordIn(_HEADER_KEYWORDS, cells[i])

\* _is_header_row(cells)
_is_header_row(cells) ==
    IF cells = <<>> THEN FALSE
    ELSE IF \E i \in 1..Len(cells) :
               Strip(cells[i]) # <<>> /\ _STRONG_HEADER_PATTERNS_search(Strip(cells[i]))
    THEN TRUE
    ELSE LET keyword_cells == {i \in 1..Len(cells) : AnyWordIn(_HEADER_KEYWORDS, cells[i])}
             jurisdiction_cells == {i \in 1..Len(cells) : AnyWordIn(_JURISDICTION_HEADER_PHRASES, cells[i])}
         IN  IF /\ keyword_cells # {} /\ jurisdiction_cells # {}
                /\ Cardinality(keyword_cells \cup jurisdiction_cells) >= 2
             THEN TRUE
             ELSE Cardinality(keyword_cells) >= 2

\* The alternatives of _SECTION_LABEL_PATTERNS that are plain phrases.
LabelPhrases == {
    <<<<"i","n","t","e","r","n","a","t","i","o","n","a","l">>, <<"s","u","b","s","i","d","i","a","r","i","e","s">>>>, <<<<"i","n","t","e","r","n","a","t","i","o","n","a","l">>, <<"c","o","m","p","a","n","i","e","s">>>>,
    <<<<"d","o","m","e","s","t","i","c">>, <<"s","u","b","s","i","d","i","a","r","i","e","s">>>>, <<<<"d","o","m","e","s","t","i","c">>, <<"c","o","m","p","a","n","i","e","s">>>>,
    <<<<"f","o","r","e","i","g","n">>, <<"s","u","b","s","i","d","i","a","r","i","e","s">>>>, <<<<"f","o","r","e","i","g","n">>, <<"c","o","m","p","a","n","i","e","s">>>>,
    <<<<"s","u","b","s","i","d","i","a","r","i","e","s">>, <<"o","f">>>>, <<<<"t","h","e">>, <<"f","o","l","l","o","w","i","n","g">>>>,
    <<<<"s","i","g","n","i","f","i","c","a","n","t">>, <<"s","u","b","s","i","d","i","a","r","i","e","s">>>>, <<<<"l","i","s","t">>, <<"o","f">>, <<"s","u","b","s","i","d","i","a","r","i","e","s">>>>,
    <<<<"e","x","h","i","b","i","t">>, <<"2","1">>>> }

\* u\.?\s*s\.?\s*(subsidiaries|companies) at the start of t
UsLabel(t) ==
    LET a == IF Len(t) >= 2 /\ t[2] = "." THEN 3 ELSE 2
        b == a + Run(t, a, Whitespace)
        c == IF b + 1 <= Len(t) /\ t[b + 1] = "." THEN b + 2 ELSE b + 1
        d == c + Run(t, c, Whitespace)
    IN  /\ t # <<>> /\ t[1] = "u"
        /\ b <= Len(t) /\ t[b] = "s"
        /\ d <= Len(t)
        /\ PhraseAt(t, d, <<<<"s","u","b","s","i","d","i","a","r","i","e","s">>>>, 1) \/ PhraseAt(t, d, <<<<"c","o","m","p","a","n","i","e","s">>>>, 1)

\* part\s+[ivx]+ at the start of t
PartLabel(t) ==
    /\ t # <<>> /\ PhraseAt(t, 1, <<<<"p","a","r","t">>>>, 1)
    /\ Run(t, 5, Whitespace) >= 1
    /\ 5 + Run(t, 5, Whitespace) <= Len(t)
    /\ t[5 + Run(t, 5, Whitespace)] \in {"i", "v", "x"}

\* _SECTION_LABEL_PATTERNS.match(text), re.IGNORECASE
_SECTION_LABEL_PATTERNS_match(text) ==
    \/ UsLabel(Lower(text))
    \/ \E p \in LabelPhrases : text # <<>> /\ PhraseAt(Lower(text), 1, p, 1)
    \/ PartLabel(Lower(text))

ShortLabel == 60

\* [c for c in cells if c.strip()]
NonEmpty(cells) == SelectSeq(cells, LAMBDA c : Strip(c) # <<>>)

\* The tests of _is_section_label on the text of the only non-empty cell.
LabelText(text) ==
    \/ _SECTION_LABEL_PATTERNS_match(text)
    \/ /\ Len(text) < ShortLabel
       /\ text = Upper(text)
       /\ \A i \in 1..Len(text) : text[i] \notin Digits

\* _is_section_label(cells)
_is_section_label(cells) ==
    IF Len(NonEmpty(cells)) # 1 THEN FALSE
    ELSE LabelText(RStripChars(Strip(NonEmpty(cells)[1]), {":"}))

(***************************************************************************)
(* Columns                                                                 *)
(***************************************************************************)
\* _looks_like_ownership_column(values); numeric_count / non_empty > 0.4 is
\* written with integers.
_looks_like_ownership_column(values) ==
    LET numeric_count == Cardinality({i \in 1..Len(values) :
                                         /\ Float(PercentText(values[i])) # None
                                         /\ InPercentRange(Float(PercentText(values[i]))[1])})
        non_empty == Cardinality({i \in 1..Len(values) : Strip(values[i]) # <<>>})
    IN  non_empty > 0 /\ 5 * numeric_count > 2 * non_empty

\* r + [''] * (max_cols - len(r))
Padded(r, max_cols) == [i \in 1..max_cols |-> IF i <= Len(r) THEN r[i] ELSE <<>>]

\* [padded_row[i] for i in keep], keep in ascending order
RECURSIVE KeptCells(_, _, _)
KeptCells(row, keep, i) ==
    IF i > Len(row) THEN <<>>
    ELSE (IF i \in keep THEN <<row[i]>> ELSE <<>>) \o KeptCells(row, keep, i + 1)

\* The columns of the padded rows that hold a non-empty value.
KeepColumns(rows, max_cols) ==
    {c \in 1..max_cols : \E r \in 1..Len(rows) : c <= Len(rows[r]) /\ Strip(rows[r][c]) # <<>>}

\* _strip_empty_columns(rows)
_strip_empty_columns(rows) ==
    IF rows = <<>> THEN rows
    ELSE LET max_cols == SetMax({Len(rows[r]) : r \in 1..Len(rows)})
         IN  [r \in 1..Len(rows) |->
                 KeptCells(Padded(rows[r], max_cols), KeepColumns(rows, max_cols), 1)]

(***************************************************************************)
(* The HTML tree.  A document is the sequence of its top-level tables; a   *)
(* table is the sequence of its rows, a row the sequence of its cells, and *)
(* a cell holds its own text and the tables nested in it.  The parser      *)
(* (BeautifulSoup) is external: find_all walks all descendants in document *)
(* order and get_text joins the text of all descendants.  Documents are    *)
(* serialised without whitespace between tags.                             *)
(***************************************************************************)
Td(text) == [text |-> text, tables |-> <<>>]
TdWith(text, tables) == [text |-> text, tables |-> tables]

RECURSIVE CellText(_), CellsText(_, _), RowsText(_, _), TablesText(_, _)
\* cell.get_text()
CellText(c) == c.text \o TablesText(c.tables, 1)
CellsText(row, k) ==
    IF k > Len(row) THEN <<>> ELSE CellText(row[k]) \o CellsText(row, k + 1)
RowsText(t, r) ==
    IF r > Len(t) THEN <<>> ELSE CellsText(t[r], 1) \o RowsText(t, r + 1)
TablesText(ts, i) ==
    IF i > Len(ts) THEN <<>> ELSE RowsText(ts[i], 1) \o TablesText(ts, i + 1)

RECURSIVE TdOfRow(_, _), TdOfTable(_, _), TdOfTables(_, _)
\* row.find_all(['td', 'th']): the cells of the row and of the tables nested
\* in them
TdOfRow(row, k) ==
    IF k > Len(row) THEN <<>>
    ELSE <<row[k]>> \o TdOfTables(row[k].tables, 1) \o TdOfRow(row, k + 1)
TdOfTable(t, r) ==
    IF r > Len(t) THEN <<>> ELSE TdOfRow(t[r], 1) \o TdOfTable(t, r + 1)
TdOfTables(ts, i) ==
    IF i > Len(ts) THEN <<>> ELSE TdOfTable(ts[i], 1) \o TdOfTables(ts, i + 1)

RECURSIVE TrOfTable(_, _), TrOfCells(_, _), TrOfTables(_, _)
\* table.find_all('tr'): the rows of the table and of the tables nested in it
TrOfTable(t, r) ==
    IF r > Len(t) THEN <<>>
    ELSE <<t[r]>> \o TrOfCells(t[r], 1) \o TrOfTable(t, r + 1)
TrOfCells(row, k) ==
    IF k > Len(row) THEN <<>> ELSE TrOfTables(row[k].tables, 1) \o TrOfCells(row, k + 1)
TrOfTables(ts, i) ==
    IF i > Len(ts) THEN <<>> ELSE TrOfTable(ts[i], 1) \o TrOfTables(ts, i + 1)

\* The tables nested in a table, in document order, each marked as having a
\* table ancestor: a nested table comes before the tables nested in it, and
\* those before the next table of the same cell.
RECURSIVE TablesOfTable(_, _), TablesOfCells(_, _), TablesOfTables(_, _)
TablesOfTable(t, r) ==
    IF r > Len(t) THEN <<>> ELSE TablesOfCells(t[r], 1) \o TablesOfTable(t, r + 1)
TablesOfCells(row, k) ==
    IF k > Len(row) THEN <<>>
    ELSE TablesOfTables(row[k].tables, 1) \o TablesOfCells(row, k + 1)
TablesOfTables(ts, i) ==
    IF i > Len(ts) THEN <<>>
    ELSE <<[table |-> ts[i], nested |-> TRUE]>> \o TablesOfTable(ts[i], 1)
         \o TablesOfTables(ts, i + 1)

\* soup.find_all('table')
RECURSIVE FindAllTables(_, _)
FindAllTables(html, i) ==
    IF i > Len(html) THEN <<>>
    ELSE <<[table |-> html[i], nested |-> FALSE]>>
         \o TablesOfTable(html[i], 1)
         \o FindAllTables(html, i + 1)

\* [t for t in soup.find_all('table') if t.find_parent('table') is None]
TopLevelTables(html) == SelectSeq(FindAllTables(html, 1), LAMBDA t : ~t.nested)

\* all_cells of one table: a list of cell texts for every tr found in it
CellTexts(tds) == [k \in 1..Len(tds) |-> _clean_text(CellText(tds[k]))]
RowTexts(rows) == [r \in 1..Len(rows) |-> CellTexts(TdOfRow(rows[r], 1))]
AllCells(table) == RowTexts(TrOfTable(table, 1))

(***************************************************************************)
(* parse_subsidiaries                                                      *)
(***************************************************************************)
Subsidiary(name, jurisdiction, ownership_pct) ==
    [name |-> name, jurisdiction |-> jurisdiction, ownership_pct |-> ownership_pct]

\* The rows kept as data rows: two or more non-empty cells, no header, no
\* section label.
DataRows(all_cells) ==
    SelectSeq(all_cells, LAMBDA cells :
        /\ Len(NonEmpty(cells)) >= 2
        /\ ~_is_header_row(cells)
        /\ ~_is_section_label(cells))

\* effective_cols = max(col_counts, key=col_counts.get): the most frequent
\* number of non-empty cells; of two equally frequent numbers the one seen
\* first (dict order) wins.
EffectiveCols(data_rows) ==
    LET n == [i \in 1..Len(data_rows) |-> Len(NonEmpty(data_rows[i]))]
        count == [i \in 1..Len(data_rows) |-> Cardinality({j \in 1..Len(data_rows) : n[j] = n[i]})]
        best == SetMax({count[i] : i \in 1..Len(data_rows)})
    IN  n[SetMin({i \in 1..Len(data_rows) : count[i] = best})]

\* The branch for two effective columns with the name left as it is in the
\* cell.
RECURSIVE TwoColumnRecordsUncleaned(_, _)
TwoColumnRecordsUncleaned(data_rows, i) ==
    IF i > Len(data_rows) THEN <<>>
    ELSE (IF Len(NonEmpty(data_rows[i])) < 2 THEN <<>>
          ELSE IF NonEmpty(data_rows[i])[1] # <<>> /\ Strip(NonEmpty(data_rows[i])[2]) # <<>>
          THEN <<Subsidiary(NonEmpty(data_rows[i])[1],
                            Strip(NonEmpty(data_rows[i])[2]), None)>>
          ELSE <<>>)
         \o TwoColumnRecordsUncleaned(data_rows, i + 1)

\* effective_cols == 2: name and jurisdiction are the first two non-empty
\* cells.
RECURSIVE TwoColumnRecords(_, _)
TwoColumnRecords(data_rows, i) ==
    IF i > Len(data_rows) THEN <<>>
    ELSE (IF Len(NonEmpty(data_rows[i])) < 2 THEN <<>>
          ELSE IF _clean_name(NonEmpty(data_rows[i])[1]) # <<>> /\ Strip(NonEmpty(data_rows[i])[2]) # <<>>
          THEN <<Subsidiary(_clean_name(NonEmpty(data_rows[i])[1]),
                            Strip(NonEmpty(data_rows[i])[2]), None)>>
          ELSE <<>>)
         \o TwoColumnRecords(data_rows, i + 1)

\* No ownership column: name and jurisdiction are the first and the last
\* non-empty cell.
RECURSIVE FallbackRecords(_, _)
FallbackRecords(data_rows, i) ==
    IF i > Len(data_rows) THEN <<>>
    ELSE (IF Len(NonEmpty(data_rows[i])) < 2 THEN <<>>
          ELSE IF /\ _clean_name(NonEmpty(data_rows[i])[1]) # <<>>
                  /\ Strip(NonEmpty(data_rows[i])[Len(NonEmpty(data_rows[i]))]) # <<>>
          THEN <<Subsidiary(_clean_name(NonEmpty(data_rows[i])[1]),
                            Strip(NonEmpty(data_rows[i])[Len(NonEmpty(data_rows[i]))]), None)>>
          ELSE <<>>)
         \o FallbackRecords(data_rows, i + 1)

\* cells[col] if col < len(cells) else '', col counted from 0
CellAt(cells, col) == IF col < Len(cells) THEN cells[col + 1] ELSE <<>>

\* An ownership column was found: name, ownership and jurisdiction are read
\* by column index (counted from 0).
RECURSIVE PositionalRecords(_, _, _, _)
PositionalRecords(data_rows, i, ownership_col, jurisdiction_col) ==
    IF i > Len(data_rows) THEN <<>>
    ELSE (IF /\ _clean_name(CellAt(data_rows[i], 0)) # <<>>
             /\ Strip(CellAt(data_rows[i], jurisdiction_col)) # <<>>
          THEN <<Subsidiary(_clean_name(CellAt(data_rows[i], 0)),
                            Strip(CellAt(data_rows[i], jurisdiction_col)),
                            _parse_ownership(CellAt(data_rows[i], ownership_col)))>>
          ELSE <<>>)
         \o PositionalRecords(data_rows, i + 1, ownership_col, jurisdiction_col)

\* num_cols = max(len(r) for r in data_rows)
NumCols(data_rows) == SetMax({Len(data_rows[r]) : r \in 1..Len(data_rows)})

\* The scan for the ownership column over range(1, min(num_cols, 4)): the
\* first column that looks like ownership, or None.
OwnershipCol(data_rows, num_cols) ==
    LET found == {c \in 1..(Min(num_cols, 4) - 1) :
                    _looks_like_ownership_column(
                        [r \in 1..Len(data_rows) |-> CellAt(data_rows[r], c)])}
    IN  IF found = {} THEN None ELSE Some(SetMin(found))

\* Mutant of JurisdictionCol: the jurisdiction is always read from column 1.
JurisdictionColFixed(ownership_col, num_cols) == 1

\* jurisdiction_col = other_cols[0] if other_cols else (ownership_col + 1)
JurisdictionCol(ownership_col, num_cols) ==
    LET other_cols == {i \in 1..(num_cols - 1) : i # ownership_col}
    IN  IF other_cols # {} THEN SetMin(other_cols) ELSE ownership_col + 1

\* effective_cols >= 3, with the result of the ownership scan
ThreeColumnRecords(data_rows, ownership_col) ==
    IF ownership_col # None
    THEN PositionalRecords(data_rows, 1, ownership_col[1],
                           JurisdictionCol(ownership_col[1], NumCols(data_rows)))
    ELSE FallbackRecords(data_rows, 1)

\* The records of one table, from its data rows and effective column count.
RecordsByColumns(data_rows, effective_cols) ==
    IF effective_cols = 2 THEN TwoColumnRecords(data_rows, 1)
    ELSE IF effective_cols >= 3
    THEN ThreeColumnRecords(data_rows, OwnershipCol(data_rows, NumCols(data_rows)))
    ELSE <<>>

DataRowRecords(data_rows) ==
    IF data_rows = <<>> THEN <<>>
    ELSE RecordsByColumns(data_rows, EffectiveCols(data_rows))

\* The body of the loop over the tables, for the cell texts of one table.
TableRecords(all_cells) ==
    IF all_cells = <<>> THEN <<>>
    ELSE DataRowRecords(DataRows(_strip_empty_columns(all_cells)))

RECURSIVE Accumulate(_, _)
Accumulate(tables, i) ==
    IF i > Len(tables) THEN <<>>
    ELSE TableRecords(AllCells(tables[i].table)) \o Accumulate(tables, i + 1)

\* Mutant of parse_subsidiaries: a record equal to an earlier one is dropped.
RECURSIVE WithoutRepeats(_, _)
WithoutRepeats(records, i) ==
    IF i > Len(records) THEN <<>>
    ELSE (IF \E j \in 1..(i - 1) : records[j] = records[i] THEN <<>> ELSE <<records[i]>>)
         \o WithoutRepeats(records, i + 1)
ParseSubsidiariesDeduplicated(html) == WithoutRepeats(Accumulate(TopLevelTables(html), 1), 1)

\* parse_subsidiaries(html_content)
parse_subsidiaries(html) == Accumulate(TopLevelTables(html), 1)

(***************************************************************************)
(* SpecSubsidiaries: parse_subsidiaries and its helpers as functions of    *)
(* their input                                                             *)
(***************************************************************************)
MaxRows == 3
MaxTables == 2
MaxCells == 3

\* A row of plain cells
Tr(texts) == [k \in 1..Len(texts) |-> Td(texts[k])]
\* A table of plain rows
PlainTable(rows) == [r \in 1..Len(rows) |-> Tr(rows[r])]

\* Rows of two-column exhibits: a name that carries a header keyword, a
\* footnote marker, a footnote line, and the header.
TwoColumnRows == {
    <<<<"J","u","r","i","s","d","i","c","t","i","o","n"," ","H","o","l","d","i","n","g","s"," ","L","L","C">>, <<" ","N","e","w","\n"," ","Y","o","r","k"," ">>>>,
    <<<<"T","r","a","i","l","i","n","g"," ","F","o","o","t","n","o","t","e"," ","C","o","r","p"," ","(","3",")">>, <<"T","e","x","a","s">>>>,
    <<<<"*">>, <<"L","e","s","s"," ","t","h","a","n"," ","w","h","o","l","l","y"," ","o","w","n","e","d">>>>,
    <<<<"N","a","m","e"," ","o","f"," ","S","u","b","s","i","d","i","a","r","y">>, <<"J","u","r","i","s","d","i","c","t","i","o","n">>>> }

\* Rows of three-column exhibits: ownership in the second or in the third
\* column, out of range, missing, and a name that carries a header keyword.
ThreeColumnRows == {
    <<<<"D","o","r","m","a","n","t"," ","C","o","r","p">>, <<"0">>, <<"C","a","l","i","f","o","r","n","i","a">>>>,
    <<<<"B","i","g"," ","C","o","r","p">>, <<"1","0","1">>, <<"N","e","v","a","d","a">>>>,
    <<<<"L","a","t","e"," ","C","o","r","p">>, <<"U","t","a","h">>, <<"7","5","%">>>>,
    <<<<"S","o","l","o"," ","C","o","r","p">>, <<>>, <<"O","h","i","o">>>>,
    <<<<"N","a","t","i","o","n","a","l"," ","O","w","n","e","r","s","h","i","p"," ","C","o","r","p">>, <<"8","0">>, <<"T","e","x","a","s">>>> }

\* Tables of at most n rows taken from pool
RECURSIVE RowLists(_, _)
RowLists(pool, n) ==
    IF n = 0 THEN {<<>>}
    ELSE LET shorter == RowLists(pool, n - 1)
         IN  shorter \cup {Append(l, r) : l \in {x \in shorter : Len(x) = n - 1}, r \in pool}

GeneratedTables ==
    {PlainTable(l) : l \in RowLists(TwoColumnRows, MaxRows) \cup RowLists(ThreeColumnRows, MaxRows)}

\* Tables of documents with several tables: the two-column exhibit with its
\* header and a section label, a layout table with the data table nested in
\* its only cell, the three-column exhibit with its header, and a table
\* without rows.
SectionTables == {
    PlainTable(<<<<<<"N","a","m","e"," ","o","f"," ","S","u","b","s","i","d","i","a","r","y">>, <<"J","u","r","i","s","d","i","c","t","i","o","n">>>>, <<<<"U",".","S","."," ","S","U","B","S","I","D","I","A","R","I","E","S",":">>>>,
                 <<<<"A","c","m","e"," ","C","o","r","p">>, <<"D","e","l","a","w","a","r","e">>>>, <<<<"B","e","t","a"," ","L","L","C">>, <<"C","a","l","i","f","o","r","n","i","a">>>>>>),
    <<<<TdWith(<<>>, <<PlainTable(<<<<<<"A","l","p","h","a"," ","C","o","r","p">>, <<"D","e","l","a","w","a","r","e">>>>,
                                    <<<<"B","e","t","a"," ","L","L","C">>, <<"C","a","l","i","f","o","r","n","i","a">>>>>>)>>)>>>>,
    PlainTable(<<<<<<"S","u","b","s","i","d","i","a","r","y">>, <<"O","w","n","e","r","s","h","i","p">>, <<"J","u","r","i","s","d","i","c","t","i","o","n">>>>,
                 <<<<"A","c","t","i","v","e"," ","C","o","r","p">>, <<"1","0","0">>, <<"D","e","l","a","w","a","r","e">>>>,
                 <<<<"D","o","r","m","a","n","t"," ","C","o","r","p">>, <<"0">>, <<"C","a","l","i","f","o","r","n","i","a">>>>,
                 <<<<"O","t","h","e","r"," ","C","o","r","p">>, <<"5","0">>, <<"T","e","x","a","s">>>>>>),
    <<>> }

\* Tables that stand for whole exhibits: the tables above, a layout table
\* with a one-row table nested in it, names with bracketed numbers, a column
\* where exactly two values of five are percentages, a spacer column, and
\* four columns.
ExhibitTables == SectionTables \cup {
    <<<<TdWith(<<" ">>, <<PlainTable(<<<<<<"A","l","p","h","a"," ","C","o","r","p">>, <<"D","e","l","a","w","a","r","e">>>>>>)>>)>>>>,
    PlainTable(<<<<<<"S","e","r","i","e","s"," ","[","1","]"," ","H","o","l","d","i","n","g","s"," ","T","r","u","s","t">>, <<"D","e","l","a","w","a","r","e">>>>,
                 <<<<"P","h","a","s","e"," ","(","1",")"," ","C","l","i","n","i","c","a","l"," ","L","L","C">>, <<"C","a","l","i","f","o","r","n","i","a">>>>,
                 <<<<"F","u","n","d"," ","[","2","0","2","4","]">>, <<"N","e","w"," ","Y","o","r","k">>>>,
                 <<<<"T","r","a","i","l","i","n","g"," ","F","o","o","t","n","o","t","e"," ","C","o","r","p"," ","(","3",")">>, <<"T","e","x","a","s">>>>>>),
    PlainTable(<<<<<<"A"," ","C","o","r","p">>, <<"1","0">>, <<"O","h","i","o">>>>, <<<<"B"," ","C","o","r","p">>, <<"2","0","%">>, <<"U","t","a","h">>>>,
                 <<<<"C"," ","C","o","r","p">>, <<"n","/","a">>, <<"I","o","w","a">>>>, <<<<"D"," ","C","o","r","p">>, <<"-">>, <<"T","e","x","a","s">>>>,
                 <<<<"E"," ","C","o","r","p">>, <<"n","o","n","e">>, <<"M","a","i","n","e">>>>>>),
    PlainTable(<<<<<<"A","c","m","e"," ","C","o","r","p">>, <<>>, <<"D","e","l","a","w","a","r","e">>>>, <<<<"B","e","t","a"," ","L","L","C">>, <<" ">>, <<"C","a","l","i","f","o","r","n","i","a">>>>>>),
    PlainTable(<<<<<<"W","i","d","e"," ","C","o","r","p">>, <<"T","e","x","a","s">>, <<"N","o","t","e"," ","1">>, <<"5","0">>>>,
                 <<<<"D","e","e","p"," ","C","o","r","p">>, <<"U","t","a","h">>, <<"N","o","t","e"," ","2">>, <<"6","0",".","5"," ","%">>>>>>) }

\* Documents of at most n tables
RECURSIVE TableLists(_)
TableLists(n) ==
    IF n = 0 THEN {<<>>}
    ELSE LET shorter == TableLists(n - 1)
         IN  shorter \cup {Append(l, t) : l \in {x \in shorter : Len(x) = n - 1}, t \in SectionTables}

HtmlDocuments == {<<t>> : t \in GeneratedTables \cup ExhibitTables} \cup TableLists(MaxTables)

\* Cells for _is_header_row
HeaderCells == {
    <<"J","u","r","i","s","d","i","c","t","i","o","n"," ","H","o","l","d","i","n","g","s"," ","L","L","C">>, <<"N","a","t","i","o","n","a","l"," ","O","w","n","e","r","s","h","i","p"," ","C","o","r","p">>, <<"D","e","l","a","w","a","r","e">>,
    <<"P","l","a","c","e"," ","o","f"," ","O","r","g","a","n","i","z","a","t","i","o","n">>, <<"S","t","a","t","e"," ","o","r"," ","P","r","o","v","i","n","c","e">>, <<"N","a","m","e"," ","o","f"," ","E","n","t","i","t","y">>, <<>> }

RECURSIVE CellLists(_)
CellLists(n) ==
    IF n = 0 THEN {<<>>}
    ELSE LET shorter == CellLists(n - 1)
         IN  shorter \cup {Append(l, c) : l \in {x \in shorter : Len(x) = n - 1}, c \in HeaderCells}

\* Names for _clean_name: a name followed by what may be a footnote marker
NameStems == {<<"S","e","r","i","e","s"," ","[","1","]"," ","H","o","l","d","i","n","g","s"," ","T","r","u","s","t">>, <<"P","h","a","s","e"," ","(","1",")"," ","C","l","i","n","i","c","a","l"," ","L","L","C">>, <<"F","u","n","d"," ","[","2","0","2","4","]">>,
              <<"T","r","a","i","l","i","n","g"," ","F","o","o","t","n","o","t","e"," ","C","o","r","p">>, <<"S","t","a","r"," ","*"," ","C","o","r","p">>}
NameEndings == {<<>>, <<" ","(","3",")">>, <<"(","1",")","(","2",")">>, <<" ","[","1","2","]"," ">>, <<"*">>, <<" ","*","*">>, <<" ","(","1",")"," ","*">>,
                <<" ","[","1","2","3","]">>, <<" ","(","a",")">>, <<" ","(","3",")"," ","I","n","c">>}
NameInputs == {s \o e : s \in NameStems, e \in NameEndings} \cup {<<"(","1",")">>, <<"*","*">>, <<>>}

\* Cell values for _parse_ownership
OwnershipInputs == {
    <<"1","0","0">>, <<"0">>, <<"5","0">>, <<"9","9",".","9","%">>, <<"1","0","0","%">>, <<" ","8","0"," ","%"," ">>, <<"0",".","0">>, <<"-","0">>, <<"1","e","2">>, <<".","5">>,
    <<"1","0","0",".","0","1">>, <<"1","0","1">>, <<"-","1">>, <<"1","e","3">>, <<"n","/","a">>, <<>>, <<"%">>, <<"n","a","n">>, <<"i","n","f">>, <<"t","e","n">>, <<"5"," ","0">>,
    <<"-","1","e","-","4","0","0">>, <<"1","e","-","4","0","0">>, <<"1","0","0",".","0","0","0","0","0","0","1">>, <<"1","5","0",".","0","0","0","0","0","0","1">>, <<"9","9",".","9","9","9","9","9","9","9">>, <<"1","e","-","7">>,
    <<"1","e","4","0","0">>, <<"-","2","4","7","0","3","2","8","2","3","e","-","3","3","2">> }

Input(kind, html, cells, text) == [kind |-> kind, html |-> html, cells |-> cells, text |-> text]

InitSubsidiaries ==
    /\ doc \in {Input("html", h, <<>>, <<>>) : h \in HtmlDocuments}
            \cup {Input("cells", <<>>, r, <<>>) : r \in CellLists(MaxCells)}
            \cup {Input("name", <<>>, <<>>, t) : t \in NameInputs}
            \cup {Input("ownership", <<>>, <<>>, t) : t \in OwnershipInputs}
    /\ filing = [form |-> "10-K", atts |-> <<>>]
    /\ inst = "none"
    /\ cache = EmptyCache
    /\ runs = NoRuns
    /\ modules \in {AllModules, {}}
    /\ last = NoCall

\* parse_subsidiaries(html_content): the import of bs4 comes before anything else
ParseSubsidiaries ==
    /\ last.op = "none" /\ doc.kind = "html"
    /\ last' = [op |-> "parse_subsidiaries", arg |-> None,
                res |-> IF "bs4" \in modules THEN Val(parse_subsidiaries(doc.html))
                        ELSE [kind |-> "raise", val |-> "ModuleNotFoundError"]]
    /\ UNCHANGED <<filing, doc, inst, cache, runs, modules>>

IsHeaderRow ==
    /\ last.op = "none" /\ doc.kind = "cells"
    /\ last' = [op |-> "_is_header_row", arg |-> None,
                res |-> Val(_is_header_row(doc.cells))]
    /\ UNCHANGED <<filing, doc, inst, cache, runs, modules>>

CleanName ==
    /\ last.op = "none" /\ doc.kind = "name"
    /\ last' = [op |-> "_clean_name", arg |-> None,
                res |-> Val(_clean_name(doc.text))]
    /\ UNCHANGED <<filing, doc, inst, cache, runs, modules>>

ParseOwnership ==
    /\ last.op = "none" /\ doc.kind = "ownership"
    /\ last' = [op |-> "_parse_ownership", arg |-> None,
                res |-> Val(_parse_ownership(doc.text))]
    /\ UNCHANGED <<filing, doc, inst, cache, runs, modules>>

\* parse_subsidiaries has returned
Parsed == last.op = "parse_subsidiaries" /\ last.res.kind = "return"

NextSubsidiaries == ParseSubsidiaries \/ IsHeaderRow \/ CleanName \/ ParseOwnership

SpecSubsidiaries == InitSubsidiaries /\ [][NextSubsidiaries]_vars

(***************************************************************************)
(* Claims on the classifiers (checked under SpecClassify)                  *)
(***************************************************************************)
\* The tiers as the priority chain names them, each a predicate on one
\* attachment that the scan does not skip.
Eligible(a) == DocType(a) \notin _SKIP_TYPES /\ IsHtmlUrl(a.url)
IsEx99(a) == StartsWith(DocType(a), <<"E","X","-","9","9">>)
InTier1(a) == Eligible(a) /\ DocType(a) \in {<<"E","X","-","1">>, <<"E","X","-","1",".","1">>, <<"E","X","-","1",".","2">>}
InTier2(a) ==
    Eligible(a) /\ (Contains(<<"A","N","N","U","A","L"," ","I","N","F","O","R","M","A","T","I","O","N">>, Desc(a)) \/ HasWord(<<"A","I","F">>, Desc(a)))
InTier3(a) ==
    Eligible(a) /\ IsEx99(a) /\ (Contains(<<"a","n","n","u","a","l">>, Filename(a)) \/ Contains(<<"a","i","f">>, Filename(a)))
IsMajorEx99(a) == Eligible(a) /\ IsEx99(a) /\ SizeOrZero(a) > _MAJOR_EXHIBIT_THRESHOLD
InTier5(a) == Eligible(a) /\ DocType(a) \in {<<"4","0","-","F">>, <<"4","0","-","F","/","A">>}

FirstOf(atts, idx) == atts[CHOOSE i \in idx : \A j \in idx : i <= j]

\* C1: whenever _find_aif_attachment returns, it returns the candidate of the
\* highest-priority non-empty tier, in the order EX-1 type, description,
\* EX-99.x filename keyword ('aif' before 'annual'), first major EX-99.x
\* passing the content sniff, main 40-F document, first major EX-99.x; it
\* downloads nothing when one of the first three tiers has a candidate, sniffs
\* the major exhibits in list order and stops at the first that passes, and
\* returns (None, 'AIF not found') only when every tier is empty.
C1_PriorityChain ==
    (last.op = "_find_aif_attachment" /\ last.res.kind = "return") =>
    LET atts == filing.atts
        r == last.res
        t1 == {i \in 1..Len(atts) : InTier1(atts[i])}
        t2 == {i \in 1..Len(atts) : InTier2(atts[i])}
        t3 == {i \in 1..Len(atts) : InTier3(atts[i])}
        t3aif == {i \in t3 : Contains(<<"a","i","f">>, Filename(atts[i]))}
        t5 == {i \in 1..Len(atts) : InTier5(atts[i])}
        major == SelectSeq(atts, IsMajorEx99)
        passed == {k \in 1..Len(r.log) : _has_aif_content(r.log[k].resp).val}
    IN  IF t1 # {} THEN
            r.att = Some(FirstOf(atts, t1)) /\ r.log = <<>>
            /\ r.reason = "EX-1/EX-1.1/EX-1.2 (standard MJDS)"
        ELSE IF t2 # {} THEN
            r.att = Some(FirstOf(atts, t2)) /\ r.log = <<>>
            /\ r.reason = "Description mentions ANNUAL INFORMATION"
        ELSE IF t3 # {} THEN
            /\ r.log = <<>>
            /\ IF t3aif # {}
               THEN r.att = Some(FirstOf(atts, t3aif)) /\ r.reason = "EX-99.x with AIF in filename"
               ELSE r.att = Some(FirstOf(atts, t3)) /\ r.reason = "EX-99.x with AIF filename keywords"
        ELSE
            /\ Len(r.log) <= Len(major)
            /\ \A k \in 1..Len(r.log) : r.log[k].url = major[k].url
            /\ IF passed # {} THEN
                   /\ passed = {Len(r.log)}
                   /\ r.att = Some(major[Len(r.log)])
                   /\ r.reason = "EX-99.x with AIF content"
               ELSE
                   /\ Len(r.log) = Len(major)
                   /\ IF t5 # {} THEN
                          /\ r.att # None /\ InTier5(r.att[1])
                          /\ \E i \in t5 : atts[i] = r.att[1]
                          /\ r.reason = "40-F main document (AIF embedded inline)"
                      ELSE IF major # <<>> THEN
                          r.att = Some(major[1])
                          /\ r.reason = "EX-99.x first major exhibit (fallback)"
                      ELSE r.att = None /\ r.reason = "AIF not found"

\* C1 witness: the content-sniff tier wins on its second candidate while the
\* main 40-F document, a lower tier, is also in the list.
C1_Witness ==
    /\ last.op = "_find_aif_attachment" /\ last.res.kind = "return"
    /\ last.res.reason = "EX-99.x with AIF content"
    /\ Len(last.res.log) = 2
    /\ {i \in 1..Len(filing.atts) : InTier5(filing.atts[i])} # {}

\* C2: a download_text exception during the content sniff never leaves
\* _find_aif_attachment or _find_mda_attachment; the call returns a decision.
C2_SniffExceptionContained ==
    last.op \in {"_find_aif_attachment", "_find_mda_attachment"} => last.res.kind = "return"

\* C10: _find_mda_attachment never returns an attachment whose URL is the URL
\* of the attachment passed as the AIF.
C10_MdaIsNotAif ==
    (/\ last.op = "_find_mda_attachment" /\ last.res.kind = "return"
     /\ last.arg # None /\ last.res.att # None)
    => last.res.att[1].url # last.arg[1].url

\* C10 witness: the AIF is an exhibit that would itself be an MD&A candidate
\* (an EX-99.x or the main document), and another attachment is returned.
C10_Witness ==
    /\ last.op = "_find_mda_attachment" /\ last.res.kind = "return"
    /\ last.arg # None /\ last.res.att # None
    /\ MdaClass(last.arg[1], <<>>) \in {"desc", "filename", "ex99"}

\* The exhibit types the priority chain accepts without looking further.
StandardTypes == {<<"E","X","-","1">>, <<"E","X","-","1",".","1">>, <<"E","X","-","1",".","2">>}
StandardIdx(atts) == {i \in 1..Len(atts) : DocType(atts[i]) \in StandardTypes}
\* One exhibit of a standard type, every other attachment an EX-99.x exhibit.
OneStandardAmongEx99(atts) ==
    /\ Cardinality(StandardIdx(atts)) = 1
    /\ \A i \in 1..Len(atts) : i \notin StandardIdx(atts) => IsEx99(atts[i])

\* The same filing with other file sizes: sz[i] is the size of attachment i.
SizeChoices == {None, Some(0), Some(_MAJOR_EXHIBIT_THRESHOLD), Some(_MAJOR_EXHIBIT_THRESHOLD + 1)}
Resized(f, sz) ==
    [f EXCEPT !.atts = [i \in 1..Len(f.atts) |-> [f.atts[i] EXCEPT !.size = sz[i]]]]
TierOneOutcome(f, i) ==
    {Ret(Some(f.atts[i]), "EX-1/EX-1.1/EX-1.2 (standard MJDS)", <<>>)}

\* C11 as stated: with one exhibit of type EX-1, EX-1.1 or EX-1.2 and
\* otherwise only EX-99.x exhibits in the list, _find_aif_attachment returns
\* the standard exhibit with the tier-1 reason, whatever the file sizes are.
C11_StandardExhibitWins ==
    (last.op = "_find_aif_attachment" /\ OneStandardAmongEx99(filing.atts)) =>
    LET i == CHOOSE k \in StandardIdx(filing.atts) : TRUE
    IN  /\ {last.res} = TierOneOutcome(filing, i)
        /\ \A sz \in [1..Len(filing.atts) -> SizeChoices] :
              _find_aif_attachment(Resized(filing, sz)) = TierOneOutcome(Resized(filing, sz), i)

\* C11 amended: the same, for a standard exhibit that is an HTML document
\* (its URL ends in .htm, .html or .xhtml).
C11_StandardHtmlExhibitWins ==
    (/\ last.op = "_find_aif_attachment" /\ OneStandardAmongEx99(filing.atts)
     /\ \A k \in StandardIdx(filing.atts) : IsHtmlUrl(filing.atts[k].url)) =>
    LET i == CHOOSE k \in StandardIdx(filing.atts) : TRUE
    IN  /\ {last.res} = TierOneOutcome(filing, i)
        /\ \A sz \in [1..Len(filing.atts) -> SizeChoices] :
              _find_aif_attachment(Resized(filing, sz)) = TierOneOutcome(Resized(filing, sz), i)

\* C11 witness: the standard exhibit comes after two EX-99.x exhibits, one of
\* them large enough for the content sniff, and is returned.
C11_Witness ==
    /\ last.op = "_find_aif_attachment" /\ OneStandardAmongEx99(filing.atts)
    /\ Len(filing.atts) = 3 /\ StandardIdx(filing.atts) = {3}
    /\ IsHtmlUrl(filing.atts[3].url)
    /\ \E k \in 1..2 : IsMajorEx99(filing.atts[k])
    /\ last.res.kind = "return" /\ last.res.att = Some(filing.atts[3])

\* C12: when no attachment is a candidate of the exhibit-type, description or
\* filename tier, no download of the content sniff shows AIF headings and a
\* main 40-F or 40-F/A document is in the list, _find_aif_attachment returns
\* that main document with the reason 'AIF embedded inline'; the reason
\* 'first major exhibit (fallback)' is given only when the list has no main
\* document.
C12_MainDocumentFallback ==
    last.op = "_find_aif_attachment" =>
    LET atts == filing.atts
        r == last.res
        tiers123 == {i \in 1..Len(atts) : InTier1(atts[i]) \/ InTier2(atts[i]) \/ InTier3(atts[i])}
        main == {i \in 1..Len(atts) : DocType(atts[i]) \in {<<"4","0","-","F">>, <<"4","0","-","F","/","A">>}}
        passed == {k \in 1..Len(r.log) : _has_aif_content(r.log[k].resp).val}
    IN  /\ (tiers123 = {} /\ passed = {} /\ main # {}) =>
              /\ r.kind = "return"
              /\ \E i \in main : r.att = Some(atts[i])
              /\ r.reason = "40-F main document (AIF embedded inline)"
        /\ (r.kind = "return" /\ r.reason = "EX-99.x first major exhibit (fallback)") => main = {}

(***************************************************************************)
(* Claims on section detection (checked under SpecSections)                *)
(***************************************************************************)
\* The headings accepted for the text: the first clean match of each pattern.
Accepted(text) ==
    LET found == FoundFrom(text, 1, MinContentPos(text))
    IN  {found[i] : i \in 1..Len(found)}
Kept(positions) == {positions[i] : i \in 1..Len(positions)}

\* C8 as stated: the result is sorted with consecutive entries at least 200
\* apart, and of any two accepted headings that start fewer than 200 characters
\* apart only the earlier one is kept.
C8_OnlyEarlierOfClosePairKept ==
    last.op = "_find_section_positions" =>
    LET ps == last.res.val
    IN  /\ \A i \in 1..(Len(ps) - 1) : ps[i + 1].pos - ps[i].pos >= DedupDistance
        /\ \A a, b \in Accepted(doc) :
               (a.pos < b.pos /\ b.pos - a.pos < DedupDistance)
               => (a \in Kept(ps) /\ b \notin Kept(ps))

\* C8 amended: the result is sorted by offset, strictly increasing, with
\* consecutive entries at least 200 apart, whatever the pattern order; it holds
\* only accepted headings, the earliest accepted heading among them; a heading
\* is dropped exactly when it starts fewer than 200 characters after a kept
\* one, so two accepted headings closer than 200 are never both kept and the
\* later is dropped whenever the earlier is kept.
C8_SortedAndSpaced ==
    last.op = "_find_section_positions" =>
    LET ps == last.res.val
        acc == Accepted(doc)
    IN  /\ \A i \in 1..(Len(ps) - 1) :
               ps[i].pos < ps[i + 1].pos /\ ps[i + 1].pos - ps[i].pos >= DedupDistance
        /\ Kept(ps) \subseteq acc
        /\ (acc # {}) => (ps # <<>> /\ \A a \in acc : ps[1].pos <= a.pos)
        /\ \A a \in acc \ Kept(ps) :
               \E k \in Kept(ps) : k.pos <= a.pos /\ a.pos - k.pos < DedupDistance
        /\ \A a, b \in acc :
               (a.pos < b.pos /\ b.pos - a.pos < DedupDistance /\ a \in Kept(ps))
               => b \notin Kept(ps)

\* C8 witness: three headings accepted out of offset order, one of them dropped.
C8_Witness ==
    /\ last.op = "_find_section_positions"
    /\ LET found == FoundFrom(doc, 1, MinContentPos(doc))
       IN  /\ Len(found) = 3
           /\ found[1].pos > found[2].pos
           /\ Len(last.res.val) = 2

\* C9: the slice carved for section i is [p_i, p_(i+1)), and [p_n, len(text))
\* for the last one: each section ends where the next starts, none is empty
\* or overlaps another, and together they cover [p_0, len(text)).
C9_SectionsPartition ==
    /\ last.op = "_find_section_positions" =>
         LET ps == last.res.val
             span(i) == _extract_section_text(doc, ps, i)
         IN  /\ \A i \in 1..Len(ps) : span(i).start = ps[i].pos /\ span(i).start < span(i).end
             /\ \A i \in 1..(Len(ps) - 1) : span(i).end = span(i + 1).start
             /\ ps # <<>> => span(Len(ps)).end = doc.len
             /\ \A x \in {ps[i].pos : i \in 1..Len(ps)} \cup {doc.len - 1} :
                    ps # <<>> =>
                    Cardinality({i \in 1..Len(ps) : span(i).start <= x /\ x < span(i).end}) = 1
    /\ last.op = "_extract_section_text" =>
         LET ps == last.arg.positions
             i == last.arg.idx
         IN  /\ last.res.val.start = ps[i].pos
             /\ last.res.val.end = (IF i < Len(ps) THEN ps[i + 1].pos ELSE doc.len)

\* C9 witness: a section that is followed by another one has been carved.
C9_Witness ==
    /\ last.op = "_extract_section_text"
    /\ last.arg.idx < Len(last.arg.positions)
    /\ last.res.val.end = last.arg.positions[last.arg.idx + 1].pos

(***************************************************************************)
(* Claims on the FortyF instance (checked under SpecFacade)                *)
(***************************************************************************)
LookupOps == {"__getitem__"} \cup DOMAIN NamedKeys
IsStringLookup == last.op \in LookupOps /\ last.arg.type = "str"
Returned(v) == [kind |-> "return", val |-> v]

\* The accessors C3 names
Accessors ==
    {"aif_attachment", "aif_html", "aif_text", "business", "items",
     "mda_attachment", "mda_html", "mda_text"} \cup LookupOps

\* C3 as stated: no accessor call (a lookup taking a string key) ends in an
\* exception, whatever download_text does; a failed full AIF download leaves
\* aif_html = None.
C3_AccessorsNeverRaise ==
    (inst = "ready" /\ last.op \in Accessors
        /\ ~(last.op = "__getitem__" /\ last.arg.type # "str"))
    => last.res.kind = "return"

\* C4 as stated: on one instance no lazily computed step is executed more
\* than once, a failed download included.
C4_EachStepRunsOnce == \A s \in DOMAIN runs : runs[s] <= 1

\* C5: constructing from a filing of another form raises AssertionError and
\* yields no instance; a lookup with a non-string key raises TypeError and
\* leaves the cache and the run counts as they were; no other call raises
\* either error.
C5_Step ==
    /\ last'.op = "__init__" =>
          IF filing.form \in {"40-F", "40-F/A"}
          THEN last'.res = Returned(None) /\ inst' = "ready"
          ELSE last'.res = [kind |-> "raise", val |-> "AssertionError"]
               /\ inst' = "none" /\ cache' = cache /\ runs' = runs
    /\ (last'.op = "__getitem__" /\ last'.arg.type # "str") =>
          /\ last'.res = [kind |-> "raise", val |-> "TypeError"]
          /\ cache' = cache
          /\ runs' = runs
    /\ (last'.op \notin {"none", "__init__"} /\ last'.res.kind = "raise"
            /\ last'.res.val \in {"TypeError", "AssertionError"})
          => (last'.op = "__getitem__" /\ last'.arg.type # "str")
C5_MalformedInputRaises == [][C5_Step]_vars

\* C5 witness: a non-string key was refused on an instance that has resolved
\* nothing.
C5_Witness ==
    /\ inst = "ready"
    /\ last.op = "__getitem__"
    /\ last.arg.type = "int"
    /\ last.res = [kind |-> "raise", val |-> "TypeError"]
    /\ cache = EmptyCache
    /\ \A s \in DOMAIN runs : runs[s] = 0

\* The section a lookup is to return: the first section named exactly k or,
\* when there is none, the first of the sections fuzzy, cut at the start of the
\* next section.
NameAt(i) == Lower(cache["_section_positions"][i].name)
Expected(k, fuzzy) ==
    LET positions == cache["_section_positions"]
        exact == {i \in 1..Len(positions) : NameAt(i) = k}
        hit == IF exact # {} THEN exact ELSE fuzzy
        first == CHOOSE i \in hit : \A j \in hit : i <= j
    IN  IF k = <<>> \/ positions = <<>> \/ hit = {} THEN None
        ELSE Some([start |-> positions[first].pos,
                   end |-> IF first < Len(positions) THEN positions[first + 1].pos
                           ELSE TextOf(cache["aif_text"][1]).len])

\* C6 as stated: exact match first, then containment in either direction.
C6_ExactThenEitherContainment ==
    (IsStringLookup /\ last.res.kind = "return") =>
    LET k == Strip(Lower(last.arg.val))
    IN  last.res.val =
            Expected(k, {i \in 1..Len(cache["_section_positions"]) :
                            Contains(k, NameAt(i)) \/ Contains(NameAt(i), k)})

\* C6: a lookup with a string key returns the first section whose name equals
\* the stripped key case-insensitively; when there is none, the first section
\* whose name contains the key; and None when nothing matches, when the key is
\* blank, or when there are no sections.  A section whose name is contained in
\* the key is not a match.
C6_ExactThenKeyInName ==
    (IsStringLookup /\ last.res.kind = "return") =>
    LET k == Strip(Lower(last.arg.val))
    IN  last.res.val =
            Expected(k, {i \in 1..Len(cache["_section_positions"]) : Contains(k, NameAt(i))})

\* C6 witness: the key names one section exactly and is contained in the name
\* of an earlier one; the exactly named section was returned.
C6_Witness ==
    /\ IsStringLookup
    /\ last.res.kind = "return"
    /\ last.res.val # None
    /\ LET positions == cache["_section_positions"]
           k == Strip(Lower(last.arg.val))
       IN  \E i, j \in 1..Len(positions) :
              /\ j < i
              /\ Lower(positions[i].name) = k
              /\ Contains(k, Lower(positions[j].name))
              /\ last.res.val[1].start = positions[i].pos

\* The instance has no sections: its AIF text is unavailable, or no heading
\* pattern has a clean match in it.
NoSections ==
    /\ "aif_text" \in DOMAIN cache
    /\ \/ cache["aif_text"] = None
       \/ Accepted(TextOf(cache["aif_text"][1])) = {}

\* C7: when the AIF text is unavailable or no heading pattern has a clean
\* match in it, the detected positions are the empty list, items is the empty
\* list, and every lookup with a string key and every named section accessor
\* returns None.
C7_NoSectionsNoResults ==
    NoSections =>
    /\ cache["aif_text"] # None =>
           _find_section_positions(TextOf(cache["aif_text"][1])) = <<>>
    /\ "_section_positions" \in DOMAIN cache => cache["_section_positions"] = <<>>
    /\ "items" \in DOMAIN cache => cache["items"] = <<>>
    /\ last.op = "items" => last.res = Returned(<<>>)
    /\ IsStringLookup => last.res = Returned(None)

\* C7 witness: the text was extracted, no heading in it is clean, and a named
\* section accessor returned None.
C7_Witness ==
    /\ NoSections
    /\ cache["aif_text"] # None
    /\ TextOf(cache["aif_text"][1]).matches # <<>>
    /\ last.op \in DOMAIN NamedKeys
    /\ last.res = Returned(None)

(***************************************************************************)
(* Claims on the subsidiaries parser (checked under SpecSubsidiaries)      *)
(***************************************************************************)
\* The document is one table of one row of one cell, and that cell holds one
\* table.
NestedInOneCell(html) ==
    /\ Len(html) = 1 /\ Len(html[1]) = 1 /\ Len(html[1][1]) = 1
    /\ Len(html[1][1][1].tables) = 1
NestedTable(html) == html[1][1][1].tables[1]

\* C13: for a data table nested in the single cell of an outer table,
\* parse_subsidiaries returns as many records as the nested table has data
\* rows.
C13_NestedRowsOnce ==
    (Parsed /\ NestedInOneCell(doc.html))
    => Len(last.res.val)
       = Len(DataRows(_strip_empty_columns(AllCells(NestedTable(doc.html)))))

\* The cells of row that match a strong header phrase, and those that carry a
\* weak signal (a header keyword or a jurisdiction phrase).
StrongCells(cells) ==
    {i \in 1..Len(cells) : Strip(cells[i]) # <<>> /\ _STRONG_HEADER_PATTERNS_search(Strip(cells[i]))}
WeakCells(cells) ==
    {i \in 1..Len(cells) : \/ AnyWordIn(_HEADER_KEYWORDS, cells[i])
                           \/ AnyWordIn(_JURISDICTION_HEADER_PHRASES, cells[i])}

\* The document is one table of plain cells whose rows all have n cells.
PlainTableOfWidth(html, n) ==
    /\ Len(html) = 1
    /\ \A r \in 1..Len(html[1]) :
          /\ Len(html[1][r]) = n
          /\ \A k \in 1..n : html[1][r][k].tables = <<>>

\* The cell texts of row r of the only table
RowCells(html, r) == CellTexts(html[1][r])

\* Row r has two or more cells, none of them empty, no strong header phrase
\* and exactly one cell with a weak signal, and its name is not only a
\* footnote marker.
NameWithKeywordRow(html, r) ==
    LET cells == RowCells(html, r)
    IN  /\ Len(cells) >= 2
        /\ \A k \in 1..Len(cells) : cells[k] # <<>>
        /\ StrongCells(cells) = {}
        /\ Cardinality(WeakCells(cells)) = 1
        /\ _clean_name(cells[1]) # <<>>

\* C14: a row without a strong header phrase and with at most one cell that
\* carries a weak signal is not a header for _is_header_row, and
\* parse_subsidiaries returns the record of such a row.
C14_SingleWeakSignalIsData ==
    /\ (last.op = "_is_header_row"
        /\ StrongCells(doc.cells) = {} /\ Cardinality(WeakCells(doc.cells)) <= 1)
       => last.res.val = FALSE
    /\ (Parsed
        /\ \E n \in 2..4 : PlainTableOfWidth(doc.html, n))
       => \A r \in 1..Len(doc.html[1]) :
             NameWithKeywordRow(doc.html, r)
             => \E k \in 1..Len(last.res.val) :
                   last.res.val[k].name = _clean_name(RowCells(doc.html, r)[1])

C14_Witness ==
    /\ Parsed
    /\ \E n \in 2..4 : PlainTableOfWidth(doc.html, n)
    /\ \E r \in 1..Len(doc.html[1]) :
          /\ NameWithKeywordRow(doc.html, r)
          /\ WeakCells(RowCells(doc.html, r)) = {1}
          /\ \E k \in 1..Len(last.res.val) :
                last.res.val[k].name = _clean_name(RowCells(doc.html, r)[1])

\* The length of a footnote marker that t ends with: a bracketed number of one
\* or two digits, or 0 when t ends otherwise.
TrailingMarkerLen(t) ==
    LET n == Len(t)
    IN  IF n >= 3 /\ t[n] \in {")", "]"} /\ t[n - 1] \in Digits /\ t[n - 2] \in {"(", "["}
        THEN 3
        ELSE IF /\ n >= 4 /\ t[n] \in {")", "]"} /\ t[n - 1] \in Digits
                /\ t[n - 2] \in Digits /\ t[n - 3] \in {"(", "["}
        THEN 4 ELSE 0

\* s without the footnote markers at its end, taken off from the right
RECURSIVE WithoutTrailingMarkers(_)
WithoutTrailingMarkers(s) ==
    LET t == RStripChars(s, Whitespace)
    IN  IF TrailingMarkerLen(t) = 0 THEN s
        ELSE WithoutTrailingMarkers(SubSeq(t, 1, Len(t) - TrailingMarkerLen(t)))

\* The only whitespace of s is the space, as in a cleaned cell text.
SpacesOnly(s) == \A i \in 1..Len(s) : s[i] \in Whitespace => s[i] = " "

\* C15: for a name whose only whitespace is the space, as the cell texts
\* of the parser are, _clean_name removes footnote markers only at the end of
\* the name: the result is the name without its trailing markers and without
\* the asterisks and spaces that then end it; a bracket group in the middle
\* of the name and a bracketed number of three or more digits stay.
C15_FootnoteMarkersOnlyAtEnd ==
    (last.op = "_clean_name" /\ SpacesOnly(doc.text))
    => /\ last.res.val
          = Strip(RStripChars(WithoutTrailingMarkers(doc.text), Whitespace \cup {"*"}))
       /\ doc.text = <<"T","r","a","i","l","i","n","g"," ","F","o","o","t","n","o","t","e"," ","C","o","r","p"," ","(","3",")">>
          => last.res.val = <<"T","r","a","i","l","i","n","g"," ","F","o","o","t","n","o","t","e"," ","C","o","r","p">>
       /\ doc.text \in {<<"S","e","r","i","e","s"," ","[","1","]"," ","H","o","l","d","i","n","g","s"," ","T","r","u","s","t">>, <<"P","h","a","s","e"," ","(","1",")"," ","C","l","i","n","i","c","a","l"," ","L","L","C">>, <<"F","u","n","d"," ","[","2","0","2","4","]">>}
          => last.res.val = doc.text

C15_Witness ==
    /\ last.op = "_clean_name"
    /\ doc.text = <<"S","e","r","i","e","s"," ","[","1","]"," ","H","o","l","d","i","n","g","s"," ","T","r","u","s","t"," ","(","3",")">>
    /\ last.res.val = <<"S","e","r","i","e","s"," ","[","1","]"," ","H","o","l","d","i","n","g","s"," ","T","r","u","s","t">>

\* The float 0.0
ZeroPercent == [kind |-> "num", neg |-> FALSE, num |-> 0, exp |-> 0]

\* Cell values that are no number, and numbers outside 0..100
NotAPercentage == {<<"1","0","0",".","0","1">>, <<"1","0","1">>, <<"-","1">>, <<"1","e","3">>, <<"n","/","a">>, <<>>, <<"%">>,
                   <<"n","a","n">>, <<"i","n","f">>, <<"t","e","n">>, <<"5"," ","0">>, <<"1","0","0",".","0","0","0","0","0","0","1">>, <<"1","5","0",".","0","0","0","0","0","0","1">>,
                   <<"1","e","4","0","0">>, <<"-","2","4","7","0","3","2","8","2","3","e","-","3","3","2">>}

\* Cell values that are percentages
Percentages == {<<"1","0","0">>, <<"0">>, <<"5","0">>, <<"8","0">>}

\* Record k of the result comes from a row whose ownership cell is "0", in a
\* table whose second column holds percentages only.
ZeroOwnershipRecord(html, records, k) ==
    \E n \in 3..4 :
        /\ PlainTableOfWidth(html, n)
        /\ \A r \in 1..Len(html[1]) : RowCells(html, r)[2] \in Percentages
        /\ \E r \in 1..Len(html[1]) :
              /\ RowCells(html, r)[1] = records[k].name
              /\ RowCells(html, r)[2] = <<"0">>
              /\ RowCells(html, r)[3] = records[k].jurisdiction

\* C16: the ownership_pct of every record returned by parse_subsidiaries is
\* None or a number from 0 to 100; _parse_ownership gives None for a value
\* that is no number or lies outside that range, and 0.0 for "0", which is
\* also what the record of a row with "0" in the ownership column carries.
C16_OwnershipInRange ==
    /\ Parsed
       => \A k \in 1..Len(last.res.val) :
             /\ \/ last.res.val[k].ownership_pct = None
                \/ /\ last.res.val[k].ownership_pct[1].kind = "num"
                   /\ InPercentRange(last.res.val[k].ownership_pct[1])
             /\ ZeroOwnershipRecord(doc.html, last.res.val, k)
                => last.res.val[k].ownership_pct = Some(ZeroPercent)
    /\ last.op = "_parse_ownership"
       => /\ doc.text \in NotAPercentage => last.res.val = None
          /\ doc.text = <<"0">> => last.res.val = Some(ZeroPercent)
          /\ last.res.val # None => InPercentRange(last.res.val[1])

C16_Witness ==
    /\ Parsed
    /\ \E k \in 1..Len(last.res.val) :
          /\ ZeroOwnershipRecord(doc.html, last.res.val, k)
          /\ last.res.val[k].ownership_pct = Some(ZeroPercent)
    /\ \E k \in 1..Len(last.res.val) :
          last.res.val[k].ownership_pct \notin {None, Some(ZeroPercent)}

\* The data rows of the only table of the document
OnlyTableDataRows(html) == DataRows(_strip_empty_columns(AllCells(html[1])))

\* More than 40% of the non-empty values of column c (counted from 0) are
\* numbers from 0 to 100, with or without a trailing "%".
MostlyPercentages(data_rows, c) ==
    LET filled == {r \in 1..Len(data_rows) : Strip(CellAt(data_rows[r], c)) # <<>>}
        numeric == {r \in filled : _parse_ownership(CellAt(data_rows[r], c)) # None}
    IN  filled # {} /\ 5 * Cardinality(numeric) > 2 * Cardinality(filled)

\* The columns among 1..3 that hold mostly percentages
PercentageColumns(data_rows) ==
    {c \in 1..3 : c < NumCols(data_rows) /\ MostlyPercentages(data_rows, c)}

\* The records expected of a table with an ownership column own: the name
\* from column 0, the jurisdiction from the lowest other column.
ExpectedPositional(data_rows, own) ==
    LET jur == SetMin({c \in 1..(NumCols(data_rows) - 1) : c # own})
        recs == [r \in 1..Len(data_rows) |->
                    Subsidiary(_clean_name(CellAt(data_rows[r], 0)),
                               CellAt(data_rows[r], jur),
                               _parse_ownership(CellAt(data_rows[r], own)))]
    IN  SelectSeq(recs, LAMBDA x : x.name # <<>> /\ x.jurisdiction # <<>>)

\* The records expected of a table without an ownership column: the first
\* and the last non-empty cell of each row.
ExpectedFirstLast(data_rows) ==
    LET recs == [r \in 1..Len(data_rows) |->
                    Subsidiary(_clean_name(NonEmpty(data_rows[r])[1]),
                               NonEmpty(data_rows[r])[Len(NonEmpty(data_rows[r]))],
                               None)]
    IN  SelectSeq(recs, LAMBDA x : x.name # <<>>)

\* The document is one table with three or more effective columns.
ThreeOrMoreColumns(html) ==
    /\ Len(html) = 1 /\ TablesOfTable(html[1], 1) = <<>>
    /\ LET data_rows == OnlyTableDataRows(html)
       IN  data_rows # <<>> /\ EffectiveCols(data_rows) >= 3

\* C17: for a table of three or more effective columns the ownership column
\* is the first of the columns 1..3 in which more than 40% of the non-empty
\* values are numbers from 0 to 100; the jurisdiction is read from the first
\* other column that is not the name, and the ownership from that column.
\* Without such a column every row gives its first and last non-empty cell
\* and no ownership.
C17_OwnershipColumnByValues ==
    (Parsed /\ ThreeOrMoreColumns(doc.html))
    => LET data_rows == OnlyTableDataRows(doc.html)
           columns == PercentageColumns(data_rows)
       IN  IF columns # {}
           THEN last.res.val = ExpectedPositional(data_rows, SetMin(columns))
           ELSE last.res.val = ExpectedFirstLast(data_rows)

C17_Witness ==
    /\ Parsed /\ ThreeOrMoreColumns(doc.html)
    /\ PercentageColumns(OnlyTableDataRows(doc.html)) = {1}
    /\ Len(last.res.val) = 3
    /\ last.res.val[1].jurisdiction = <<"D","e","l","a","w","a","r","e">>
    /\ last.res.val[2].ownership_pct = Some(ZeroPercent)
    /\ last.res.val[3].jurisdiction = <<"T","e","x","a","s">>

\* The rows of the only table that have two or more non-empty cells and are
\* no header
NamedRows(html) ==
    SelectSeq(AllCells(html[1]),
              LAMBDA cells : Len(NonEmpty(cells)) >= 2 /\ ~_is_header_row(cells))

\* The document is one table without nested tables whose data rows have
\* exactly two non-empty cells each.
TwoColumnTable(html) ==
    /\ Len(html) = 1 /\ TablesOfTable(html[1], 1) = <<>>
    /\ LET rows == NamedRows(html)
       IN  \A r \in 1..Len(rows) : Len(NonEmpty(rows[r])) = 2

\* One record for each row: the cleaned first cell, the second cell, no
\* ownership.
NameAndJurisdiction(rows) ==
    [r \in 1..Len(rows) |->
        Subsidiary(_clean_name(NonEmpty(rows[r])[1]), NonEmpty(rows[r])[2], None)]

\* No record carries the text of the header or of a section label as its
\* name, and a document without rows gives no record.
NoRecordOfHeader(html, records) ==
    /\ \A k \in 1..Len(records) :
          records[k].name \notin {<<"N","a","m","e"," ","o","f"," ","S","u","b","s","i","d","i","a","r","y">>, <<"U",".","S","."," ","S","U","B","S","I","D","I","A","R","I","E","S",":">>}
    /\ html \in {<<>>, <<<<>>>>} => records = <<>>

\* C18: for a table whose data rows have two non-empty cells,
\* parse_subsidiaries returns one record for every data row, in row order:
\* the cleaned first cell, the second cell, no ownership; the header and the
\* rows with fewer than two non-empty cells give no record, and a document
\* without table rows gives the empty list.
C18_OneRecordPerDataRow ==
    Parsed
    => /\ NoRecordOfHeader(doc.html, last.res.val)
       /\ TwoColumnTable(doc.html)
          => last.res.val = NameAndJurisdiction(NamedRows(doc.html))

\* C18, amended: as above, with one record for every data row whose cleaned
\* name is not empty; a row whose first cell is only a footnote marker or
\* asterisks gives no record.
C18_OneRecordPerNamedDataRow ==
    Parsed
    => /\ NoRecordOfHeader(doc.html, last.res.val)
       /\ TwoColumnTable(doc.html)
          => last.res.val
             = SelectSeq(NameAndJurisdiction(NamedRows(doc.html)),
                         LAMBDA x : x.name # <<>>)

C18_Witness ==
    /\ Parsed /\ TwoColumnTable(doc.html)
    /\ Len(NamedRows(doc.html)) = 2
    /\ \E r \in 1..2 : _clean_name(NonEmpty(NamedRows(doc.html)[r])[1]) = <<>>
    /\ Len(last.res.val) = 1
    /\ last.res.val[1].name = <<"T","r","a","i","l","i","n","g"," ","F","o","o","t","n","o","t","e"," ","C","o","r","p">>

\* The records of the tables of the document from table i on, each table
\* parsed as a document of its own, one after the other
RECURSIVE TableByTable(_, _)
TableByTable(html, i) ==
    IF i > Len(html) THEN <<>>
    ELSE parse_subsidiaries(<<html[i]>>) \o TableByTable(html, i + 1)

\* n times the sequence s
RECURSIVE Repeated(_, _)
Repeated(s, n) == IF n = 0 THEN <<>> ELSE s \o Repeated(s, n - 1)

\* The document is one table of two or more rows that are all the same.
SameRowTable(html) ==
    /\ Len(html) = 1 /\ Len(html[1]) >= 2
    /\ \A r \in 2..Len(html[1]) : html[1][r] = html[1][1]

\* C19: the output of parse_subsidiaries is the concatenation, in document
\* order, of the records of each top-level table; a record that two tables
\* give, or two rows of one table, is in the output as often as it is given.
C19_AccumulatesInDocumentOrder ==
    Parsed
    => /\ last.res.val = TableByTable(doc.html, 1)
       /\ SameRowTable(doc.html)
          => last.res.val
             = Repeated(parse_subsidiaries(<<<<doc.html[1][1]>>>>), Len(doc.html[1]))

C19_Witness ==
    /\ Parsed
    /\ Len(doc.html) = 2 /\ doc.html[1] = doc.html[2]
    /\ Len(last.res.val) = 4
    /\ last.res.val[1] = last.res.val[3] /\ last.res.val[2] = last.res.val[4]
    /\ last.res.val[1] # last.res.val[2]

(***************************************************************************)
(* Claims on the content sniff and the size threshold (checked under       *)
(* SpecClassify)                                                           *)
(***************************************************************************)
\* The signal phrases of signals found in what the sniff reads of resp
SignalsIn(signals, resp) == {sig \in signals : Contains(sig, SniffPrefix(resp))}

\* The answer download_text gave to the last download of the call
LastAnswer == last.res.log[Len(last.res.log)].resp

\* C21: an exhibit is returned by the AIF content-sniff tier only when two or
\* more of the four heading keywords are in the downloaded prefix.
C21_AifSniffNeedsTwoSignals ==
    (/\ last.op = "_find_aif_attachment" /\ last.res.kind = "return"
     /\ last.res.reason = "EX-99.x with AIF content")
    => Cardinality(SignalsIn(_AIF_CONTENT_SIGNALS, LastAnswer)) >= 2


\* C22: an exhibit is returned by the MD&A content-sniff tier only when two or
\* more of the four signal phrases are in the downloaded prefix, every download
\* before it held fewer than two, and a search that selects nothing answers
\* (None, "MD&A not found").
C22_MdaSniffNeedsTwoSignals ==
    (last.op = "_find_mda_attachment" /\ last.res.kind = "return")
    => /\ (last.res.reason = "EX-99.x with MD&A content"
           => /\ last.res.att # None
              /\ Cardinality(SignalsIn(_MDA_CONTENT_SIGNALS, LastAnswer)) >= 2
              /\ \A i \in 1..(Len(last.res.log) - 1) :
                    Cardinality(SignalsIn(_MDA_CONTENT_SIGNALS, last.res.log[i].resp)) < 2)
       /\ (last.res.att = None <=> last.res.reason = "MD&A not found")

\* An exhibit whose two signal phrases straddle the 80,000-character window was
\* downloaded and passed over, and a later exhibit with two phrases was returned.
C22_Witness ==
    /\ last.op = "_find_mda_attachment" /\ last.res.kind = "return"
    /\ last.res.reason = "EX-99.x with MD&A content"
    /\ Len(last.res.log) >= 2
    /\ \E i \in 1..(Len(last.res.log) - 1) :
          /\ last.res.log[i].resp.kind = "text"
          /\ last.res.log[i].resp.html.pad > 0
          /\ Cardinality(SignalsIn(_MDA_CONTENT_SIGNALS, last.res.log[i].resp)) = 1


\* The attachment of the filing index with the given URL is an EX-99.x exhibit
\* of a known size above the threshold.
MajorExhibitUrl(url) ==
    \E k \in 1..Len(filing.atts) :
        /\ filing.atts[k].url = url
        /\ StartsWith(DocType(filing.atts[k]), <<"E","X","-","9","9">>)
        /\ filing.atts[k].size # None
        /\ filing.atts[k].size[1] > 100000
SizeTierReasons ==
    {"EX-99.x with AIF content", "EX-99.x with MD&A content",
     "EX-99.x first major exhibit (fallback)"}
ClassifierOps == {"_find_aif_attachment", "_find_mda_attachment"}

\* C23: every download made by a classifier is of an EX-99.x exhibit of known
\* size above 100,000; an attachment returned by the content-sniff tiers or as
\* the first major exhibit is such an exhibit; and a call ends in an exception
\* only when the download of such an exhibit raised, never on an unknown size.
C23_OnlyMajorExhibitsSniffed ==
    (last.op \in ClassifierOps)
    => /\ \A i \in 1..Len(last.res.log) : MajorExhibitUrl(last.res.log[i].url)
       /\ (last.res.kind = "return" /\ last.res.reason \in SizeTierReasons
           => last.res.att # None /\ MajorExhibitUrl(last.res.att[1].url))
       /\ (last.res.kind = "raise"
           => last.res.log # <<>> /\ LastAnswer.kind = "raise")
       /\ ((\A k \in 1..Len(filing.atts) : ~MajorExhibitUrl(filing.atts[k].url))
           => last.res.kind = "return" /\ last.res.log = <<>>)

\* A filing index whose first EX-99.x candidate has no size and whose second
\* is large: the second was downloaded once and returned as the fallback.
C23_Witness ==
    /\ last.op = "_find_aif_attachment" /\ last.res.kind = "return"
    /\ last.res.reason = "EX-99.x first major exhibit (fallback)"
    /\ Len(filing.atts) >= 2
    /\ filing.atts[1].size = None /\ ScanClass(filing.atts[1]) = "ex99"
    /\ last.res.att = Some(filing.atts[2])
    /\ Len(last.res.log) = 1


\* C27: an attachment returned by either classifier has a URL that ends in
\* .htm, .html or .xhtml and a document type (stripped) outside _SKIP_TYPES.
C27_ReturnedIsHtmlAndNotSkipped ==
    (last.op \in ClassifierOps /\ last.res.kind = "return" /\ last.res.att # None)
    => /\ \E ext \in {<<".","h","t","m">>, <<".","h","t","m","l">>, <<".","x","h","t","m","l">>} : EndsWith(last.res.att[1].url, ext)
       /\ Strip(last.res.att[1].document_type) \notin _SKIP_TYPES

\* The filing index holds a consent whose description mentions the AIF and an
\* EX-1.2 exhibit that is a PDF; both were passed over and the main document
\* was returned.
C27_Witness ==
    /\ last.op = "_find_aif_attachment" /\ last.res.kind = "return"
    /\ last.res.reason = "40-F main document (AIF embedded inline)"
    /\ \E k \in 1..Len(filing.atts) :
          /\ Strip(filing.atts[k].document_type) \in _SKIP_TYPES
          /\ HasWord(<<"A","I","F">>, Upper(filing.atts[k].description))
    /\ \E k \in 1..Len(filing.atts) :
          /\ Strip(filing.atts[k].document_type) = <<"E","X","-","1",".","2">>
          /\ EndsWith(filing.atts[k].url, <<".","p","d","f">>)


(***************************************************************************)
(* SpecFilters: the two filters and the scan of _find_section_positions on *)
(* texts whose lengths and match offsets lie on both sides of the          *)
(* minimum-content offset.                                                 *)
(***************************************************************************)
\* What precedes and follows a match: subsection numbering, page numbers of
\* the inline and the multi-line form, page footers, running prose.
HeadingContexts == {
    [before |-> <<"\n">>,                after |-> <<"\n","4",".","1"," ","O","v","e","r","v","i","e","w">>],
    [before |-> <<"\r","\n">>,              after |-> <<"\r","\n","4",".","1"," ","O","v","e","r","v","i","e","w">>],
    [before |-> <<"\n">>,                after |-> <<"\n","4",".","1"," ","O","v","e","r","v","i","e","w","\n","1","2","\n","1","3","\n","1","4","\n">>],
    [before |-> <<"\n">>,                after |-> <<" ","8","D","e","s","c","r","i","p","t","i","o","n">>],
    [before |-> <<"\n">>,                after |-> <<" ","8","d","e","s","c","r","i","p","t","i","o","n">>],
    [before |-> <<"\n">>,                after |-> <<" ","7">>],
    [before |-> <<"\n","A","n","n","u","a","l"," ","R","e","p","o","r","t"," ">>,  after |-> <<"\n","T","h","e"," ","C","o","m","p","a","n","y">>],
    [before |-> <<"\n","A","n","n","u","a","l"," ","R","e","p","o","r","t",":"," ">>, after |-> <<"\n","T","h","e"," ","C","o","m","p","a","n","y">>],
    [before |-> <<"a","s"," ","f","o","l","l","o","w","s",":"," ">>,      after |-> <<"\n","T","h","e"," ","C","o","m","p","a","n","y">>],
    [before |-> <<"w","e"," ","p","a","y"," ","n","o"," ">>,        after |-> <<" ","o","n"," ","o","u","r"," ","s","h","a","r","e","s">>] }

FilterStarts == {4000, 5000, 5001, 5100, 10000, 10001}
FilterLengths == {5000, 20000, 400000}
FilterPatterns == {"DIVIDENDS", "RISK_FACTORS"}

FilterMatchesAt(st, contexts) ==
    {[start |-> st, pat |-> p, group |-> GroupOf(p), before |-> c.before, after |-> c.after] :
        p \in FilterPatterns, c \in contexts}

\* Match lists in text order over the three basic surroundings: a match
\* starts at or after the end of the match before it.
RECURSIVE FilterMatchLists(_)
FilterMatchLists(n) ==
    IF n = 0 THEN {<<>>}
    ELSE LET shorter == FilterMatchLists(n - 1)
         IN  shorter \cup
             UNION {{Append(l, m) : m \in UNION {FilterMatchesAt(st, Surroundings) :
                                        st \in {x \in FilterStarts :
                                                  l = <<>> \/ x >= l[Len(l)].start
                                                                   + Len(l[Len(l)].group)}}}
                    : l \in {x \in shorter : Len(x) = n - 1}}

\* Every match of a text lies inside it.
FitsIn(l, n) == \A i \in 1..Len(l) : l[i].start + Len(l[i].group) <= n

\* Texts of up to n matches in the basic surroundings.
FilterTexts(n) ==
    {[len |-> k, matches |-> l] : k \in FilterLengths, l \in FilterMatchLists(n)}

InitFilters ==
    /\ doc \in {t \in FilterTexts(MaxMatches) : FitsIn(t.matches, t.len)}
              \cup {[len |-> 20000, matches |-> <<m>>] : m \in FilterMatchesAt(6000, HeadingContexts)}
    /\ filing = [form |-> "40-F", atts |-> <<>>]
    /\ inst = "none"
    /\ cache = EmptyCache
    /\ runs = NoRuns
    /\ modules = AllModules
    /\ last = NoCall

\* _is_toc_entry(text, match) for the i-th match of the text
IsTocEntry ==
    /\ last.op = "none"
    /\ \E i \in 1..Len(doc.matches) :
          last' = [op |-> "_is_toc_entry", arg |-> i,
                   res |-> Val(_is_toc_entry(doc.matches[i]))]
    /\ UNCHANGED <<filing, doc, inst, cache, runs, modules>>

\* _is_cross_reference(text, match) for the i-th match of the text
IsCrossReference ==
    /\ last.op = "none"
    /\ \E i \in 1..Len(doc.matches) :
          last' = [op |-> "_is_cross_reference", arg |-> i,
                   res |-> Val(_is_cross_reference(doc.matches[i]))]
    /\ UNCHANGED <<filing, doc, inst, cache, runs, modules>>

NextFilters == DetectSections \/ IsTocEntry \/ IsCrossReference

SpecFilters == InitFilters /\ [][NextFilters]_vars


(* Claims on the scan and the two filters (checked under SpecFilters) *)
\* min(max(5000, floor(3% of the length)), 10000)
MinimumContentOffset == Min(Max(5000, (3 * doc.len) \div 100), 10000)
\* The matches of pattern p beyond the minimum-content offset that neither
\* filter rejects, by their index in the text.
CleanMatchesOf(p) ==
    {i \in 1..Len(doc.matches) :
        /\ doc.matches[i].pat = p
        /\ doc.matches[i].start > MinimumContentOffset
        /\ ~_is_toc_entry(doc.matches[i])
        /\ ~_is_cross_reference(doc.matches[i])}
LowestCleanMatch(p) == doc.matches[SetMin(CleanMatchesOf(p))]
EntryOf(p, e) ==
    /\ CleanMatchesOf(p) # {}
    /\ e.pos = LowestCleanMatch(p).start
    /\ e.name = NormalizeWs(LowestCleanMatch(p).group)

\* C24: every position recorded by _find_section_positions is that of the
\* lowest-offset match of some pattern that lies strictly beyond the
\* minimum-content offset and that neither filter rejects; a pattern with such
\* a match is recorded at it unless an entry less than 200 characters before it
\* is kept; no pattern is recorded twice; a text of at most 5000 characters
\* has no section.
C24_LowestCleanMatchRecorded ==
    (last.op = "_find_section_positions")
    => LET res == last.res.val
       IN  /\ \A i \in 1..Len(res) : \E p \in FilterPatterns : EntryOf(p, res[i])
           /\ \A p \in FilterPatterns :
                 /\ Cardinality({i \in 1..Len(res) : EntryOf(p, res[i])}) <= 1
                 /\ CleanMatchesOf(p) # {}
                    => \E i \in 1..Len(res) :
                          /\ res[i].pos <= LowestCleanMatch(p).start
                          /\ LowestCleanMatch(p).start - res[i].pos < 200
           /\ (doc.len <= 5000 => res = <<>>)

\* Two matches of one pattern lie beyond the offset, a filter rejects the
\* first, and the second is the position recorded.
C24_Witness ==
    /\ last.op = "_find_section_positions"
    /\ \E i, j \in 1..Len(doc.matches) :
          /\ i < j
          /\ doc.matches[i].pat = doc.matches[j].pat
          /\ doc.matches[i].start > MinimumContentOffset
          /\ _is_toc_entry(doc.matches[i]) \/ _is_cross_reference(doc.matches[i])
          /\ j \in CleanMatchesOf(doc.matches[j].pat)
          /\ \E k \in 1..Len(last.res.val) : last.res.val[k].pos = doc.matches[j].start


\* The text after the i-th match as the inline rule sees it: at most 500
\* characters, leading whitespace trimmed.
Following(i) ==
    LET after == doc.matches[i].after
    IN  LStrip(SubSeq(after, 1, Min(Len(after), 500)))
\* s begins with digits, a dot and a digit ("4.1 Overview").
DottedNumbering(s) ==
    \E d \in 1..(Len(s) - 2) :
        /\ \A j \in 1..d : s[j] \in Digits
        /\ s[d + 1] = "." /\ s[d + 2] \in Digits
\* s begins with digits followed by whitespace, the end of the text or an
\* upper-case letter.
BareNumber(s) ==
    \E d \in 1..Len(s) :
        /\ \A j \in 1..d : s[j] \in Digits
        /\ (d = Len(s) \/ s[d + 1] \in Whitespace \/ s[d + 1] \in UpperSet)
\* The standalone page-number lines within 300 characters after the i-th match.
PageLinesAfter(i) ==
    LET after == doc.matches[i].after
    IN  PageNumberLines(SubSeq(after, 1, Min(Len(after), 300)), 0)

\* C25: a match followed by dotted subsection numbering is not a
\* table-of-contents entry unless two standalone page-number lines follow it,
\* and a match followed by a bare number and whitespace, the end of the text
\* or an upper-case letter is one.
C25_DottedNumberingIsNotPageNumber ==
    (last.op = "_is_toc_entry")
    => /\ (DottedNumbering(Following(last.arg)) /\ PageLinesAfter(last.arg) < 2
           => last.res.val = FALSE)
       /\ (BareNumber(Following(last.arg)) => last.res.val = TRUE)

\* The heading followed by "4.1 Overview" was tested and is not an entry.
C25_Witness ==
    /\ last.op = "_is_toc_entry"
    /\ DottedNumbering(Following(last.arg))
    /\ last.res.val = FALSE


\* The text before the i-th match on its own line: what follows the last
\* newline of the 80 characters before the match.
SameLineBefore(i) ==
    LET b == doc.matches[i].before
        before == SubSeq(b, Max(1, Len(b) - 80 + 1), Len(b))
        newlines == {k \in 1..Len(before) : before[k] = "\n"}
    IN  IF newlines = {} THEN before
        ELSE SubSeq(before, 1 + CHOOSE k \in newlines : \A j \in newlines : j <= k, Len(before))
\* The last whitespace-separated word of s begins with an upper-case letter.
LastWordCapitalized(s) ==
    \E k \in 1..Len(s) :
        /\ s[k] \in UpperSet
        /\ (k = 1 \/ s[k - 1] \in Whitespace)
        /\ \A j \in k..Len(RStrip(s)) : s[j] \notin Whitespace
        /\ k <= Len(RStrip(s))
\* Nothing that rules (a) to (c) look for is in the text before the i-th match.
NoQuoteOrPointer(i) ==
    LET b == doc.matches[i].before
    IN  /\ \A k \in 1..Len(b) : b[k] \notin {"\"", LDQUO, RDQUO}
        /\ ~EndsWith(Lower(RStrip(b)), <<"s","e","e">>)
        /\ ~EndsWith(Lower(RStrip(b)), <<"u","n","d","e","r">>)

\* C26: a match whose line holds, before it, text ending in a capitalized word
\* (and nothing rules (a) to (c) look for) is not a cross-reference.
C26_CapitalizedWordIsNotMidSentence ==
    (/\ last.op = "_is_cross_reference"
     /\ NoQuoteOrPointer(last.arg)
     /\ LastWordCapitalized(SameLineBefore(last.arg)))
    => last.res.val = FALSE


(* Claims on the named accessors and the section listing (checked under SpecFacade) *)
\* The heading pattern of _SECTION_PATTERNS behind each named accessor.
AccessorPattern ==
    [risk_factors |-> "RISK_FACTORS",
     corporate_structure |-> "CORPORATE_STRUCTURE",
     dividends |-> "DIVIDENDS",
     capital_structure |-> "DESCRIPTION_OF_CAPITAL_STRUCTURE",
     directors_and_officers |-> "DIRECTORS_AND_OFFICERS",
     legal_proceedings |-> "LEGAL_PROCEEDINGS"]
\* The text and the detected sections the instance holds.
HeldText == TextOf(cache["aif_text"][1])
HeldPositions == cache["_section_positions"]
SectionsHeld ==
    /\ "aif_text" \in DOMAIN cache /\ cache["aif_text"] # None
    /\ "_section_positions" \in DOMAIN cache
\* The detected sections whose heading is a match of pattern p.
DetectedOf(p) ==
    {i \in 1..Len(HeldPositions) :
        \E k \in 1..Len(HeldText.matches) :
            /\ HeldText.matches[k].pat = p
            /\ HeldText.matches[k].start = HeldPositions[i].pos}

\* C28: when the detected sections hold a heading matched by the pattern
\* behind a named accessor, the accessor returns the text of that section.
C28_AccessorAgreesWithDetection ==
    (/\ last.op \in DOMAIN AccessorPattern /\ last.res.kind = "return"
     /\ SectionsHeld
     /\ DetectedOf(AccessorPattern[last.op]) # {})
    => \E i \in DetectedOf(AccessorPattern[last.op]) :
          last.res.val = Some(_extract_section_text(HeldText, HeldPositions, i))


\* The detected section listed under the key of the last lookup.
ListedUnder(key) ==
    {i \in 1..Len(cache["items"]) : cache["items"][i] = key.val}
\* A heading of the text at offset pos whose title-cased, whitespace-normalized
\* text is name.
HeadingAt(pos, name) ==
    \E k \in 1..Len(HeldText.matches) :
        /\ HeldText.matches[k].start = pos
        /\ Title(NormalizeWs(HeldText.matches[k].group)) = name

\* C29: a lookup by a name listed in items returns text, not None: the
\* non-empty slice that starts at the position of that name, where a heading of
\* that name stands, and that ends where the next section starts; the previews
\* of to_context('full') hold every listed name with the section at its position.
C29_ListedNameResolvesToItsSection ==
    /\ (/\ last.op = "__getitem__" /\ last.res.kind = "return"
        /\ last.arg.type = "str"
        /\ "items" \in DOMAIN cache /\ SectionsHeld
        /\ ListedUnder(last.arg) # {})
       => /\ last.res.val # None
          /\ \A i \in ListedUnder(last.arg) :
                /\ last.res.val[1].start = HeldPositions[i].pos
                /\ last.res.val[1].start < last.res.val[1].end
                /\ last.res.val[1].end = (IF i < Len(HeldPositions)
                                          THEN HeldPositions[i + 1].pos ELSE HeldText.len)
                /\ HeadingAt(last.res.val[1].start, last.arg.val)
    /\ (/\ last.op = "to_context" /\ last.res.kind = "return"
        /\ last.arg = Str(<<"f","u","l","l">>) /\ SectionsHeld)
       => /\ Len(last.res.val.previews) = Len(cache["items"])
          /\ \A k \in 1..Len(cache["items"]) :
                /\ last.res.val.previews[k].name = cache["items"][k]
                /\ last.res.val.previews[k].text[1].start = HeldPositions[k].pos

\* 'Dividends' is listed after 'Business Of Paying Dividends The Lorem', was looked up
\* and resolved to its own section.
C29_Witness ==
    /\ last.op = "__getitem__" /\ last.res.kind = "return"
    /\ last.arg = Str(<<"D","i","v","i","d","e","n","d","s">>)
    /\ "items" \in DOMAIN cache /\ SectionsHeld
    /\ \E i, j \in 1..Len(cache["items"]) :
          /\ i < j
          /\ cache["items"][j] = last.arg.val
          /\ Contains(Lower(last.arg.val), Lower(cache["items"][i]))
          /\ last.res.val = Some(_extract_section_text(HeldText, HeldPositions, j))


\* C30: _clean_name applied to a name it returned gives that name again.
C30_CleanNameIdempotent ==
    (last.op = "_clean_name" /\ last.res.kind = "return")
    => _clean_name(last.res.val) = last.res.val

=============================================================================
